---- MODULE Spec2Model ----
(***************************************************************************)
(* Door hardware placement: the hinge placement algorithm and the lock     *)
(* placement validation, as pure calculators driven by a caller that       *)
(* holds a configuration and invokes them; the door animation state        *)
(* machine, the parameter update debouncer and the application's frame     *)
(* loops.                                                                  *)
(*                                                                         *)
(* Lengths are fixed-point numbers: one unit is 1/UnitsPerMm millimetre,   *)
(* so that every division the calculators perform on the configurations    *)
(* below (by hingeCount - 1, by 2) is exact.  Angles are in degrees.       *)
(***************************************************************************)
EXTENDS Integers, Sequences, FiniteSets, TLC

VARIABLES
  hingeInput,   \* HingePlacementInput held by the caller
  hingeOut,     \* outcome of the last hinge-calculator call
  lockInput,    \* LockPlacementInput held by the caller
  lockOut,      \* outcome of the last validateLockPlacement call
  hwInput,      \* arguments held for the lock-position, handle, bolt, conflict
                \* and double-door calculators
  hwOut,        \* outcome of the last call of one of those calculators
  callLog,      \* the calculator calls made so far: calculator and output
  door,         \* DoorAnimationState of the animated (active) leaf
  inactiveDoor, \* DoorAnimationState of the inactive leaf, or null
  now,          \* performance.now(), in ms
  animCall,     \* the last animation call: its name, arguments and input state
  debouncer,    \* ParameterUpdateDebouncer fields pendingUpdate, debounceTimer
  timers,       \* window timers: the next id and the timers not yet fired
  executed,     \* the scheduleUpdate and executeUpdate calls so far, in order
  app,          \* DoorConfigurator fields frameId and whether dispose() ran
  monitor,      \* PerformanceMonitor fields frameCount, lastTime, fps, frameTime
  frames        \* animation-frame requests: the next id and those pending

vars ==
  <<hingeInput, hingeOut, lockInput, lockOut, hwInput, hwOut, callLog, door, inactiveDoor,
    now, animCall, debouncer, timers, executed, app, monitor, frames>>

\* The state of the hardware calculators other than the hinge calculator and
\* the lock validator.
hwVars == <<hwInput, hwOut>>

calculatorVars == <<hingeInput, hingeOut, lockInput, lockOut, hwInput, hwOut>>

animationVars == <<door, inactiveDoor, animCall>>

debouncerVars == <<debouncer, timers, executed>>

applicationVars == <<app, monitor, frames>>

\* Everything but the calculators' inputs and outputs.
otherVars == <<callLog, animationVars, now, debouncerVars, applicationVars>>

\* The value of a variable in a specification that does not use it.
Unused == "unused"

InitAnimationIdle == door = Unused /\ inactiveDoor = Unused /\ animCall = Unused

InitDebouncerIdle == debouncer = Unused /\ timers = Unused /\ executed = Unused

InitApplicationIdle == app = Unused /\ monitor = Unused /\ frames = Unused

InitOthersUnused ==
  /\ callLog = Unused
  /\ now = 0
  /\ InitAnimationIdle
  /\ InitDebouncerIdle
  /\ InitApplicationIdle

-----------------------------------------------------------------------------
(* Units and optional values *)

UnitsPerMm == 60

Mm(n) == n * UnitsPerMm

\* An optional number of a configuration object: absent (undefined) or a value.
None == [has |-> FALSE, v |-> 0]
Some(n) == [has |-> TRUE, v |-> n]

\* JavaScript `x || d` on an optional number: undefined and 0 are falsy.
OrDefault(o, d) == IF o.has /\ o.v # 0 THEN o.v ELSE d

\* JavaScript `m || 'even'` on an optional string.
OrMode(m) == IF m = "undefined" THEN "even" ELSE m

Vector3(x, y, z) == [x |-> x, y |-> y, z |-> z]
Euler(x, y, z) == [x |-> x, y |-> y, z |-> z]

-----------------------------------------------------------------------------
(* Array helpers *)

\* Array.prototype.splice(start, 0, item) with a 0-based start.
Splice(s, start, item) ==
  LET at == IF start > Len(s) THEN Len(s) ELSE start
  IN  SubSeq(s, 1, at) \o <<item>> \o SubSeq(s, at + 1, Len(s))

RECURSIVE InsertSorted(_, _)
InsertSorted(s, v) ==
  IF s = <<>> THEN <<v>>
  ELSE IF v < Head(s) THEN <<v>> \o s
  ELSE <<Head(s)>> \o InsertSorted(Tail(s), v)

\* Array.prototype.sort((a, b) => a - b): ascending, stable.
RECURSIVE SortAscending(_)
SortAscending(s) ==
  IF s = <<>> THEN <<>>
  ELSE InsertSorted(SortAscending(SubSeq(s, 1, Len(s) - 1)), s[Len(s)])

-----------------------------------------------------------------------------
(* 4. Main algorithm *)

\* Faulty variant: the hinge side is ignored and the left edge always used.
getHingeXPosition_IgnoresSide(hingeSide, doorWidth) == 0

getHingeXPosition(hingeSide, doorWidth) ==
  IF hingeSide = "left" THEN 0 ELSE doorWidth

\* Math.pow(i / (hingeCount - 1), 0.8) in thousandths, rounded to nearest.
PowMilli(i, hingeCount) ==
  CASE hingeCount = 3 -> <<574>>[i]
    [] hingeCount = 4 -> <<415, 723>>[i]
    [] hingeCount = 5 -> <<330, 574, 794>>[i]
    [] hingeCount = 6 -> <<276, 480, 665, 837>>[i]
    [] hingeCount = 7 -> <<238, 415, 574, 723, 864>>[i]

\* Faulty variant: the even spacing divides by middleCount instead of hingeCount - 1.
RECURSIVE InsertMiddle_SpacingByMiddleCount(_, _, _, _, _, _)
InsertMiddle_SpacingByMiddleCount(positions, i, hingeCount, bottomOffset, availableHeight, distributionMode) ==
  IF i > hingeCount - 2 THEN positions
  ELSE IF distributionMode = "even" THEN
    LET spacing == availableHeight \div (hingeCount - 2)
    IN  InsertMiddle_SpacingByMiddleCount(Splice(positions, i, bottomOffset + (spacing * i)),
          i + 1, hingeCount, bottomOffset, availableHeight, distributionMode)
  ELSE IF distributionMode = "weighted" THEN
    LET yPos == bottomOffset + ((availableHeight * PowMilli(i, hingeCount)) \div 1000)
    IN  InsertMiddle_SpacingByMiddleCount(Splice(positions, i, yPos),
          i + 1, hingeCount, bottomOffset, availableHeight, distributionMode)
  ELSE positions

\* The loop `for (i = 1; i <= middleCount; i++) positions.splice(i, 0, ...)`.
RECURSIVE InsertMiddle(_, _, _, _, _, _)
InsertMiddle(positions, i, hingeCount, bottomOffset, availableHeight, distributionMode) ==
  IF i > hingeCount - 2 THEN positions
  ELSE IF distributionMode = "even" THEN
    LET spacing == availableHeight \div (hingeCount - 1)
    IN  InsertMiddle(Splice(positions, i, bottomOffset + (spacing * i)),
                     i + 1, hingeCount, bottomOffset, availableHeight, distributionMode)
  ELSE IF distributionMode = "weighted" THEN
    LET yPos == bottomOffset + ((availableHeight * PowMilli(i, hingeCount)) \div 1000)
    IN  InsertMiddle(Splice(positions, i, yPos),
                     i + 1, hingeCount, bottomOffset, availableHeight, distributionMode)
  ELSE positions

calculateHingeYPositions(hingeCount, doorHeight, topOffset, bottomOffset, distributionMode) ==
  IF hingeCount < 2 THEN [threw |-> TRUE, error |-> "Minimum 2 hinges required", ys |-> <<>>]
  ELSE
    LET positions == <<bottomOffset, doorHeight - topOffset>>
        availableHeight == (doorHeight - topOffset) - bottomOffset
    IN  IF hingeCount = 2 THEN [threw |-> FALSE, error |-> "", ys |-> positions]
        ELSE [threw |-> FALSE, error |-> "",
              ys |-> SortAscending(InsertMiddle(positions, 1, hingeCount, bottomOffset,
                                                availableHeight, distributionMode))]

getHingeZPosition(hingeType, leafThickness) ==
  CASE hingeType = "butt" -> 0
    [] hingeType = "concealed" -> -(leafThickness - Mm(10))
    [] hingeType = "piano" -> 0
    [] OTHER -> 0

getHingeRotation(hingeSide, hingeType) ==
  Euler(0, IF hingeSide = "left" THEN 90 ELSE -90, 0)

-----------------------------------------------------------------------------
(* 5. Hinge type-specific adjustments *)

adjustButtHingePlacement(basePosition, hingeSide, params) ==
  LET offset == params.barrelDiameter \div 2
  IN  IF hingeSide = "left"
      THEN Vector3(basePosition.x - offset, basePosition.y, basePosition.z)
      ELSE Vector3(basePosition.x + offset, basePosition.y, basePosition.z)

adjustConcealedHingePlacement(basePosition, leafThickness, params) ==
  LET cupCenterZ == -(params.cupDepth \div 2)
      edgeInset == Mm(5)
  IN  Vector3(basePosition.x + (IF basePosition.x = 0 THEN edgeInset ELSE -edgeInset),
              basePosition.y,
              cupCenterZ)

\* Faulty variant: the placement is at the floor instead of mid-height.
calculatePianoHingePlacement_AtFloor(doorHeight, doorWidth, hingeSide, params) ==
  LET xPos == IF hingeSide = "left" THEN 0 ELSE doorWidth
      yPos == 0
  IN  [position |-> Vector3(xPos, yPos, 0),
       rotation |-> getHingeRotation(hingeSide, "piano"),
       metadata |-> [length |-> doorHeight, isPiano |-> TRUE]]

calculatePianoHingePlacement(doorHeight, doorWidth, hingeSide, params) ==
  LET xPos == IF hingeSide = "left" THEN 0 ELSE doorWidth
      yPos == doorHeight \div 2
  IN  [position |-> Vector3(xPos, yPos, 0),
       rotation |-> getHingeRotation(hingeSide, "piano"),
       metadata |-> [length |-> doorHeight, isPiano |-> TRUE]]

-----------------------------------------------------------------------------
(* 6. Validation rules *)

\* Faulty variant: the height and weight thresholds are inclusive.
validateHingeCount_InclusiveThresholds(doorHeight, doorWeight, hingeCount) ==
  LET m1 == IF doorHeight >= Mm(2100) THEN 3 ELSE 2
      m2 == IF doorWeight >= 50 THEN (IF m1 > 3 THEN m1 ELSE 3) ELSE m1
      minRequired == IF doorWeight >= 80 THEN (IF m2 > 4 THEN m2 ELSE 4) ELSE m2
  IN  IF hingeCount < minRequired
      THEN [valid |-> FALSE, error |-> "Door requires minimum hinges", minRequired |-> minRequired]
      ELSE [valid |-> TRUE, error |-> "", minRequired |-> minRequired]

validateHingeCount(doorHeight, doorWeight, hingeCount) ==
  LET m1 == IF doorHeight > Mm(2100) THEN 3 ELSE 2
      m2 == IF doorWeight > 50 THEN (IF m1 > 3 THEN m1 ELSE 3) ELSE m1
      minRequired == IF doorWeight > 80 THEN (IF m2 > 4 THEN m2 ELSE 4) ELSE m2
  IN  IF hingeCount < minRequired
      THEN [valid |-> FALSE, error |-> "Door requires minimum hinges", minRequired |-> minRequired]
      ELSE [valid |-> TRUE, error |-> "", minRequired |-> minRequired]

validateOffsets(doorHeight, topOffset, bottomOffset, hingeCount) ==
  IF topOffset < Mm(100) THEN [valid |-> FALSE, error |-> "Top offset must be >= 100mm"]
  ELSE IF bottomOffset < Mm(100) THEN [valid |-> FALSE, error |-> "Bottom offset must be >= 100mm"]
  ELSE
    LET availableSpace == doorHeight - topOffset - bottomOffset
        minSpacingPerHinge == Mm(150)
        requiredSpace == (hingeCount - 2) * minSpacingPerHinge
    IN  IF availableSpace < requiredSpace
        THEN [valid |-> FALSE, error |-> "Insufficient space"]
        ELSE [valid |-> TRUE, error |-> ""]

-----------------------------------------------------------------------------
(* 8. Complete algorithm *)

\* The loop of step 7 over yPositions; i is the 0-based index of the code.
HingePlacementAt(input, yPositions, i, xPos, zPos, rotation) ==
  LET base == Vector3(xPos, yPositions[i + 1], zPos)
      position ==
        IF input.hingeType = "butt" THEN
          adjustButtHingePlacement(base, input.hingeSide,
            [plateWidth |-> Mm(45), plateHeight |-> Mm(75), barrelDiameter |-> Mm(12)])
        ELSE IF input.hingeType = "concealed" THEN
          adjustConcealedHingePlacement(base, input.leafThickness,
            [cupDiameter |-> Mm(35), cupDepth |-> Mm(12), armLength |-> Mm(95)])
        ELSE base
  IN  [id |-> <<"hinge", i>>,
       position |-> position,
       rotation |-> rotation,
       metadata |-> [index |-> i, type |-> input.hingeType, side |-> input.hingeSide,
                     yPosition |-> yPositions[i + 1]]]

placeHinges(input) ==
  LET validation == validateHingeCount(input.doorHeight, input.estimatedWeight, input.hingeCount)
  IN  IF ~validation.valid
      THEN [threw |-> TRUE, error |-> validation.error, placements |-> <<>>]
      ELSE IF input.hingeType = "piano"
      THEN [threw |-> FALSE, error |-> "",
            placements |-> <<calculatePianoHingePlacement(input.doorHeight, input.doorWidth,
                               input.hingeSide, [width |-> Mm(30), fullHeight |-> TRUE])>>]
      ELSE
        LET y == calculateHingeYPositions(
                   input.hingeCount,
                   input.doorHeight,
                   OrDefault(input.placementRules.topOffset, Mm(150)),
                   OrDefault(input.placementRules.bottomOffset, Mm(150)),
                   OrMode(input.placementRules.distributionMode))
            xPos == getHingeXPosition(input.hingeSide, input.doorWidth)
            zPos == getHingeZPosition(input.hingeType, input.leafThickness)
            rotation == getHingeRotation(input.hingeSide, input.hingeType)
        IN  IF y.threw
            THEN [threw |-> TRUE, error |-> y.error, placements |-> <<>>]
            ELSE [threw |-> FALSE, error |-> "",
                  placements |-> [k \in 1..Len(y.ys) |->
                                    HingePlacementAt(input, y.ys, k - 1, xPos, zPos, rotation)]]

-----------------------------------------------------------------------------
(* Lock placement: 2.2 position, 2.4 type-specific adjustments *)

calculateLockDepth(lockType, leafThickness) ==
  CASE lockType = "cylinder" -> -(leafThickness \div 2)
    [] lockType = "mortise" ->
         -(IF Mm(40) < (leafThickness * 7) \div 10 THEN Mm(40) ELSE (leafThickness * 7) \div 10)
    [] lockType = "deadbolt" -> -(leafThickness \div 2)
    [] lockType = "smart" -> -Mm(5)
    [] OTHER -> -(leafThickness \div 2)

calculateLockPosition(input) ==
  LET xPos == IF input.edge = "left" THEN input.edgeOffset
              ELSE input.doorWidth - input.edgeOffset
      yPos == input.lockHeight
      zPos == calculateLockDepth(input.lockType, input.leafThickness)
  IN  Vector3(xPos, yPos, zPos)

adjustCylinderLockPlacement(basePosition, params) ==
  Vector3(params.backsetDistance, basePosition.y, basePosition.z)

adjustMortiseLockPlacement(basePosition, edge, doorWidth, params) ==
  LET xPos == IF edge = "left" THEN params.backset ELSE doorWidth - params.backset
  IN  Vector3(xPos, basePosition.y, basePosition.z)

-----------------------------------------------------------------------------
(* Lock placement: 2.5 validation rules *)

\* Faulty variant: the table lookup misses and the fallback 35 is always used.
getMinimumThicknessForLock_FallbackOnly(lockType) == Mm(35)

getMinimumThicknessForLock(lockType) ==
  CASE lockType = "cylinder" -> Mm(35)
    [] lockType = "mortise" -> Mm(40)
    [] lockType = "deadbolt" -> Mm(38)
    [] lockType = "smart" -> Mm(40)
    [] OTHER -> Mm(35)

\* Faulty variant: a hinge at exactly minDistanceFromHinge counts as too close.
RECURSIVE FirstHingeTooClose_Inclusive(_, _, _)
FirstHingeTooClose_Inclusive(hingePlacements, lockHeight, k) ==
  IF k > Len(hingePlacements) THEN 0
  ELSE
    LET minDistanceFromHinge == Mm(150)
        d == hingePlacements[k].position.y - lockHeight
        distanceY == IF d < 0 THEN -d ELSE d
    IN  IF distanceY <= minDistanceFromHinge THEN k
        ELSE FirstHingeTooClose_Inclusive(hingePlacements, lockHeight, k + 1)

\* The loop `for (const hinge of hingePlacements)` of rule 2: the 1-based index
\* of the first hinge closer than minDistanceFromHinge, 0 when there is none.
RECURSIVE FirstHingeTooClose(_, _, _)
FirstHingeTooClose(hingePlacements, lockHeight, k) ==
  IF k > Len(hingePlacements) THEN 0
  ELSE
    LET minDistanceFromHinge == Mm(150)
        d == hingePlacements[k].position.y - lockHeight
        distanceY == IF d < 0 THEN -d ELSE d
    IN  IF distanceY < minDistanceFromHinge THEN k
        ELSE FirstHingeTooClose(hingePlacements, lockHeight, k + 1)

validateLockPlacement(input, hingePlacements) ==
  IF input.lockHeight < Mm(800) \/ input.lockHeight > Mm(1200)
  THEN [valid |-> FALSE, error |-> "Lock height must be between 800-1200mm"]
  ELSE IF FirstHingeTooClose(hingePlacements, input.lockHeight, 1) # 0
  THEN [valid |-> FALSE, error |-> "Lock conflicts with hinge"]
  ELSE IF input.edgeOffset < Mm(50) \/ input.edgeOffset > Mm(90)
  THEN [valid |-> FALSE, error |-> "Lock edge offset must be between 50-90mm"]
  ELSE IF input.leafThickness < getMinimumThicknessForLock(input.lockType)
  THEN [valid |-> FALSE, error |-> "Door thickness insufficient for lock"]
  ELSE [valid |-> TRUE, error |-> ""]

-----------------------------------------------------------------------------
(* 3. Handle placement *)

calculateHandleDepth(handleType, leafThickness, side) ==
  CASE handleType \in {"lever", "knob"} ->
         IF side = "exterior" THEN 0 ELSE -leafThickness
    [] handleType = "pull" ->
         LET standoffDistance == Mm(40)
         IN  IF side = "exterior" THEN standoffDistance
             ELSE -(leafThickness + standoffDistance)
    [] handleType = "bar" ->
         LET barStandoff == Mm(50)
         IN  IF side = "exterior" THEN barStandoff ELSE -(leafThickness + barStandoff)
    [] OTHER -> IF side = "exterior" THEN 0 ELSE -leafThickness

\* Faulty variant: the 60/70 edge offsets are swapped.
calculateHandlePosition_OffsetsSwapped(input, side) ==
  LET edgeOffset == IF input.lockHeight.has /\ input.lockHeight.v # 0 THEN Mm(70) ELSE Mm(60)
      xPos == IF input.edge = "left" THEN edgeOffset ELSE input.doorWidth - edgeOffset
  IN  Vector3(xPos, input.handleHeight,
              calculateHandleDepth(input.handleType, input.leafThickness, side))

calculateHandlePosition(input, side) ==
  LET edgeOffset == IF input.lockHeight.has /\ input.lockHeight.v # 0 THEN Mm(60) ELSE Mm(70)
      xPos == IF input.edge = "left" THEN edgeOffset ELSE input.doorWidth - edgeOffset
      yPos == input.handleHeight
      zPos == calculateHandleDepth(input.handleType, input.leafThickness, side)
  IN  Vector3(xPos, yPos, zPos)

coordinateHandleWithLock(handleInput, lockPlacement) ==
  IF ~(handleInput.lockHeight.has /\ handleInput.lockHeight.v # 0)
  THEN handleInput
  ELSE [handleInput EXCEPT !.handleHeight = lockPlacement.position.y]

\* The handle calculator's output, one placement per requested side (two for
\* `both`), each positioned by calculateHandlePosition.
placeHandle(input) ==
  LET sides == IF input.side = "both" THEN <<"exterior", "interior">> ELSE <<input.side>>
  IN  [k \in 1..Len(sides) |->
         [id |-> <<"handle", sides[k]>>,
          position |-> calculateHandlePosition(input, sides[k]),
          metadata |-> [type |-> input.handleType, side |-> sides[k]]]]

-----------------------------------------------------------------------------
(* 4. Inactive leaf bolts *)

calculateBoltDepth(boltType, leafThickness) ==
  CASE boltType = "flush" -> -(leafThickness \div 2)
    [] boltType = "surface" -> 0
    [] boltType = "automatic" -> -(leafThickness \div 2)
    [] OTHER -> 0

\* Rotation in degrees; Math.PI is 180.
calculateBoltRotation(position, boltType) ==
  LET rotationZ == IF boltType = "flush" \/ boltType = "automatic"
                   THEN (IF position = "top" THEN 0 ELSE 180)
                   ELSE 0
  IN  Euler(0, 0, rotationZ)

BoltPlacementAt(input, position) ==
  LET yPos == IF position = "top" THEN input.doorHeight - input.topOffset
              ELSE input.bottomOffset
      xPos == IF input.meetingEdge = "left" THEN Mm(40) ELSE input.doorWidth - Mm(40)
      zPos == calculateBoltDepth(input.boltType, input.leafThickness)
  IN  [id |-> <<"bolt", position>>,
       position |-> Vector3(xPos, yPos, zPos),
       rotation |-> calculateBoltRotation(position, input.boltType),
       metadata |-> [position |-> position, type |-> input.boltType]]

\* Faulty variant: ids are numbered by a counter shared across calls.
calculateBoltPositions_SharedCounter(input) ==
  [k \in 1..Len(input.positions) |->
     [BoltPlacementAt(input, input.positions[k])
        EXCEPT !.id = <<"bolt", input.positions[k], Len(callLog)>>]]

\* Faulty variant: every bolt is measured from the floor by bottomOffset.
calculateBoltPositions_AllFromFloor(input) ==
  [k \in 1..Len(input.positions) |->
     [BoltPlacementAt(input, input.positions[k]) EXCEPT !.position.y = input.bottomOffset]]

calculateBoltPositions(input) ==
  [k \in 1..Len(input.positions) |-> BoltPlacementAt(input, input.positions[k])]

\* Faulty variant: the offset bounds 150 and 300 are rejected.
validateBoltPlacement_ExclusiveBounds(input) ==
  IF input.topOffset <= Mm(150) \/ input.topOffset >= Mm(300)
  THEN [valid |-> FALSE, error |-> "Top bolt offset must be between 150-300mm"]
  ELSE IF input.bottomOffset <= Mm(150) \/ input.bottomOffset >= Mm(300)
  THEN [valid |-> FALSE, error |-> "Bottom bolt offset must be between 150-300mm"]
  ELSE IF Len(input.positions) = 0
  THEN [valid |-> FALSE, error |-> "At least one bolt position required"]
  ELSE IF input.boltType \in {"flush", "automatic"} /\ input.leafThickness < Mm(40)
  THEN [valid |-> FALSE,
        error |-> "Flush/automatic bolts require minimum 40mm door thickness"]
  ELSE [valid |-> TRUE, error |-> ""]

validateBoltPlacement(input) ==
  IF input.topOffset < Mm(150) \/ input.topOffset > Mm(300)
  THEN [valid |-> FALSE, error |-> "Top bolt offset must be between 150-300mm"]
  ELSE IF input.bottomOffset < Mm(150) \/ input.bottomOffset > Mm(300)
  THEN [valid |-> FALSE, error |-> "Bottom bolt offset must be between 150-300mm"]
  ELSE IF Len(input.positions) = 0
  THEN [valid |-> FALSE, error |-> "At least one bolt position required"]
  ELSE IF input.boltType \in {"flush", "automatic"} /\ input.leafThickness < Mm(40)
  THEN [valid |-> FALSE,
        error |-> "Flush/automatic bolts require minimum 40mm door thickness"]
  ELSE [valid |-> TRUE, error |-> ""]

-----------------------------------------------------------------------------
(* 5. Conflict detection *)

\* The strings that occur as metadata.type, in the order Array.prototype.sort
\* puts them (by code unit; all are lower-case ASCII).
TypeOrder ==
  <<"automatic", "bar", "bolt", "butt", "concealed", "cylinder", "deadbolt", "flush",
    "handle", "hinge", "knob", "lever", "lock", "mortise", "piano", "pull", "smart",
    "surface">>

TypeRank(t) == CHOOSE k \in 1..Len(TypeOrder) : TypeOrder[k] = t

\* [a, b].sort()
SortTypes(a, b) == IF TypeRank(b) < TypeRank(a) THEN <<b, a>> ELSE <<a, b>>

\* The key `${types[0]}-${types[1]}` is kept as the pair <<types[0], types[1]>>.
minClearance ==
  (<<"hinge", "lock">> :> Mm(150)) @@ (<<"hinge", "handle">> :> Mm(100)) @@
  (<<"hinge", "bolt">> :> Mm(200)) @@ (<<"lock", "handle">> :> Mm(50)) @@
  (<<"lock", "bolt">> :> Mm(300)) @@ (<<"handle", "bolt">> :> Mm(200))

\* p.distanceTo(q) < r for 0 < r <= 300mm. The squares are only taken when
\* every component differs by less than r, so they stay below 2^31.
distanceToIsLess(p, q, r) ==
  LET dx == IF p.x < q.x THEN q.x - p.x ELSE p.x - q.x
      dy == IF p.y < q.y THEN q.y - p.y ELSE p.y - q.y
      dz == IF p.z < q.z THEN q.z - p.z ELSE p.z - q.z
  IN  /\ dx < r /\ dy < r /\ dz < r
      /\ dx * dx + dy * dy + dz * dz < r * r

\* p.distanceTo(q) squared, in units squared.
distanceToSquared(p, q) ==
  (p.x - q.x) * (p.x - q.x) + (p.y - q.y) * (p.y - q.y) + (p.z - q.z) * (p.z - q.z)

requiredClearance(item1, item2) ==
  LET types == SortTypes(item1.metadata.type, item2.metadata.type)
      key == <<types[1], types[2]>>
  IN  IF key \in DOMAIN minClearance THEN minClearance[key] ELSE Mm(100)

\* The loop over i < j from pair (i, j) on; the conflict's distance is kept
\* squared.
RECURSIVE ConflictsFrom(_, _, _)
ConflictsFrom(allHardware, i, j) ==
  IF i > Len(allHardware) THEN <<>>
  ELSE IF j > Len(allHardware) THEN ConflictsFrom(allHardware, i + 1, i + 2)
  ELSE
    LET item1 == allHardware[i]
        item2 == allHardware[j]
        required == requiredClearance(item1, item2)
        rest == ConflictsFrom(allHardware, i, j + 1)
    IN  IF distanceToIsLess(item1.position, item2.position, required)
        THEN LET half == distanceToIsLess(item1.position, item2.position, required \div 2)
             IN  <<[type |-> IF half THEN "overlap" ELSE "proximity",
                    items |-> <<item1.id, item2.id>>,
                    distanceSquared |-> distanceToSquared(item1.position, item2.position),
                    severity |-> IF half THEN "error" ELSE "warning"]>> \o rest
        ELSE rest

detectHardwareConflicts(hinges, lock, handles, bolts) ==
  LET allHardware == hinges \o (IF lock.has THEN <<lock.v>> ELSE <<>>) \o handles \o bolts
  IN  ConflictsFrom(allHardware, 1, 2)

-----------------------------------------------------------------------------
(* 6. Double doors *)

\* The lock calculator's output: one placement at calculateLockPosition.
placeLock(input) ==
  [id |-> <<"lock">>,
   position |-> calculateLockPosition(input),
   metadata |-> [type |-> input.lockType]]

\* The bolt calculator's output: the placements of calculateBoltPositions.
placeBolts(input) == calculateBoltPositions(input)

\* { ...leaf, ...dimensions }: a field of dimensions wins over the leaf's.
Spread(leaf, dimensions) == dimensions @@ leaf

\* The handle calculator reads lockHeight as an optional field.
HandleInputOf(merged) ==
  [side |-> "both"] @@ [merged EXCEPT !.lockHeight = Some(merged.lockHeight)]

\* Faulty variant: the inactive leaf is given a lock as well.
placeHardwareForDoubleDoors_LockOnInactive(activeLeaf, inactiveLeaf, dimensions) ==
  LET activeHinges == placeHinges(Spread(activeLeaf, dimensions))
      inactiveHinges == placeHinges(Spread(inactiveLeaf, dimensions))
  IN  IF activeHinges.threw
      THEN [threw |-> TRUE, error |-> activeHinges.error, active |-> <<>>, inactive |-> <<>>]
      ELSE IF inactiveHinges.threw
      THEN [threw |-> TRUE, error |-> inactiveHinges.error, active |-> <<>>, inactive |-> <<>>]
      ELSE [threw |-> FALSE, error |-> "",
            active |-> activeHinges.placements
                         \o <<placeLock(Spread(activeLeaf, dimensions))>>
                         \o placeHandle(HandleInputOf(Spread(activeLeaf, dimensions))),
            inactive |-> inactiveHinges.placements
                           \o <<placeLock(Spread(inactiveLeaf, dimensions))>>
                           \o placeBolts([positions |-> <<"top", "bottom">>]
                                        @@ Spread(inactiveLeaf, dimensions))]

\* placeHinges throws before anything else of its leaf is placed; the
\* placements placeHandle returns are listed individually.
placeHardwareForDoubleDoors(activeLeaf, inactiveLeaf, dimensions) ==
  LET activeHinges == placeHinges(Spread(activeLeaf, dimensions))
      inactiveHinges == placeHinges(Spread(inactiveLeaf, dimensions))
  IN  IF activeHinges.threw
      THEN [threw |-> TRUE, error |-> activeHinges.error, active |-> <<>>, inactive |-> <<>>]
      ELSE IF inactiveHinges.threw
      THEN [threw |-> TRUE, error |-> inactiveHinges.error, active |-> <<>>, inactive |-> <<>>]
      ELSE [threw |-> FALSE, error |-> "",
            active |-> activeHinges.placements
                         \o <<placeLock(Spread(activeLeaf, dimensions))>>
                         \o placeHandle(HandleInputOf(Spread(activeLeaf, dimensions))),
            inactive |-> inactiveHinges.placements
                           \o placeBolts([positions |-> <<"top", "bottom">>]
                                        @@ Spread(inactiveLeaf, dimensions))]

calculateMeetingEdgeGap(leftLeafWidth, rightLeafWidth, astragalType) ==
  CASE astragalType = "none" -> Mm(3)
    [] astragalType = "surface" -> 0
    [] astragalType = "overlap" -> -Mm(10)
    [] OTHER -> Mm(3)

-----------------------------------------------------------------------------
(* Door animation state machine *)

\* progress and the easing functions' arguments and results are fixed-point
\* numbers with ProgressScale units to 1.0; angles are in AngleScale units to
\* the degree (degreesToRadians(90) is Degrees(90)); times are in ms.
ProgressScale == 1000

AngleScale == 1000

Degrees(n) == n * AngleScale

DoorState == {"CLOSED", "OPENING", "OPEN", "CLOSING", "PAUSED"}

VALID_TRANSITIONS ==
  [CLOSED |-> {"OPENING"},
   OPENING |-> {"OPEN", "CLOSING", "PAUSED"},
   OPEN |-> {"CLOSING"},
   CLOSING |-> {"CLOSED", "OPENING", "PAUSED"},
   PAUSED |-> {"OPENING", "CLOSING"}]

isValidTransition(from, to) ==
  IF from \in DOMAIN VALID_TRANSITIONS THEN to \in VALID_TRANSITIONS[from] ELSE FALSE

performanceNow == now

\* The (from, to) pairs that have an entry in TRANSITIONS.
TransitionsDefined ==
  {<<"CLOSED", "OPENING">>, <<"OPENING", "OPEN">>, <<"OPEN", "CLOSING">>,
   <<"CLOSING", "CLOSED">>}

\* The action of the TRANSITIONS entry for (from, to), applied to state.
TransitionAction(from, to, state) ==
  CASE <<from, to>> = <<"CLOSED", "OPENING">> ->
         [state EXCEPT !.currentState = "OPENING", !.targetState = "OPEN",
                       !.progress = 0, !.currentAngle = 0,
                       !.targetAngle = state.targetAngle,
                       !.startTime = performanceNow]
    [] <<from, to>> = <<"OPENING", "OPEN">> ->
         [state EXCEPT !.currentState = "OPEN", !.targetState = "OPEN",
                       !.progress = ProgressScale, !.currentAngle = state.targetAngle]
    [] <<from, to>> = <<"OPEN", "CLOSING">> ->
         [state EXCEPT !.currentState = "CLOSING", !.targetState = "CLOSED",
                       !.progress = 0, !.targetAngle = 0,
                       !.startTime = performanceNow]
    [] <<from, to>> = <<"CLOSING", "CLOSED">> ->
         [state EXCEPT !.currentState = "CLOSED", !.targetState = "CLOSED",
                       !.progress = ProgressScale, !.currentAngle = 0]

\* Faulty variant: an invalid transition is carried out by setting currentState.
executeTransition_ForcesInvalid(state, to) ==
  IF ~isValidTransition(state.currentState, to)
  THEN [state EXCEPT !.currentState = to]
  ELSE IF <<state.currentState, to>> \notin TransitionsDefined
  THEN state
  ELSE TransitionAction(state.currentState, to, state)

executeTransition(state, to) ==
  IF ~isValidTransition(state.currentState, to)
  THEN state
  ELSE IF <<state.currentState, to>> \notin TransitionsDefined
  THEN state
  ELSE TransitionAction(state.currentState, to, state)

lerp(start, end, t) == start + ((end - start) * t) \div ProgressScale

\* EASING_FUNCTIONS[name](t), for the two easings the model configures.
Ease(name, t) ==
  CASE name = "linear" -> t
    [] name = "easeInOut" ->
         IF 2 * t < ProgressScale
         THEN (4 * t * t * t) \div (ProgressScale * ProgressScale)
         ELSE ProgressScale
                - ((2 * ProgressScale - 2 * t) * (2 * ProgressScale - 2 * t)
                     * (2 * ProgressScale - 2 * t))
                    \div (2 * ProgressScale * ProgressScale)

\* Faulty variant: the animation completes one frame late, on elapsed > duration.
updateDoorAnimation_CompletesLate(state, currentTime) ==
  IF state.currentState \in {"CLOSED", "OPEN", "PAUSED"}
  THEN state
  ELSE
    LET elapsed == currentTime - state.startTime
        quotient == (elapsed * ProgressScale) \div state.duration
        rawProgress == IF quotient < ProgressScale THEN quotient ELSE ProgressScale
        easedProgress == Ease(state.easingFunction, rawProgress)
        startAngle == IF state.currentState = "OPENING" THEN 0 ELSE state.targetAngle
        endAngle == IF state.currentState = "OPENING" THEN state.targetAngle ELSE 0
        updated == [state EXCEPT !.progress = rawProgress,
                                 !.currentAngle = lerp(startAngle, endAngle, easedProgress)]
    IN  IF elapsed > state.duration
        THEN executeTransition(updated,
               IF state.currentState = "OPENING" THEN "OPEN" ELSE "CLOSED")
        ELSE updated

updateDoorAnimation(state, currentTime) ==
  IF state.currentState \in {"CLOSED", "OPEN", "PAUSED"}
  THEN state
  ELSE
    LET elapsed == currentTime - state.startTime
        quotient == (elapsed * ProgressScale) \div state.duration
        rawProgress == IF quotient < ProgressScale THEN quotient ELSE ProgressScale
        easedProgress == Ease(state.easingFunction, rawProgress)
        startAngle == IF state.currentState = "OPENING" THEN 0 ELSE state.targetAngle
        endAngle == IF state.currentState = "OPENING" THEN state.targetAngle ELSE 0
        currentAngle == lerp(startAngle, endAngle, easedProgress)
        updated == [state EXCEPT !.progress = rawProgress, !.currentAngle = currentAngle]
    IN  IF rawProgress >= ProgressScale
        THEN executeTransition(updated,
               IF state.currentState = "OPENING" THEN "OPEN" ELSE "CLOSED")
        ELSE updated

\* null, where a DoorAnimationState is expected.
NullState == [currentState |-> "null"]

\* Faulty variant: the inactive leaf may open as soon as the active leaf is
\* opening.
coordinateInactiveLeafOpening_WhileOpening(inactiveLeafId, activeLeafState) ==
  IF activeLeafState.currentState \notin {"OPEN", "OPENING"}
  THEN NullState
  ELSE [currentState |-> "OPENING", targetState |-> "OPEN", progress |-> 0,
        currentAngle |-> 0, targetAngle |-> Degrees(90), startTime |-> performanceNow,
        duration |-> 1500, easingFunction |-> "easeInOut",
        metadata |-> [doorId |-> inactiveLeafId, isActive |-> FALSE]]

coordinateInactiveLeafOpening(inactiveLeafId, activeLeafState) ==
  IF activeLeafState.currentState # "OPEN"
  THEN NullState
  ELSE [currentState |-> "OPENING", targetState |-> "OPEN", progress |-> 0,
        currentAngle |-> 0, targetAngle |-> Degrees(90), startTime |-> performanceNow,
        duration |-> 1500, easingFunction |-> "easeInOut",
        metadata |-> [doorId |-> inactiveLeafId, isActive |-> FALSE]]

-----------------------------------------------------------------------------
(* Configurations the caller may hold *)

MaxHingeCount == 5

DoorHeights == {Mm(200), Mm(2000), Mm(2100), Mm(2400)}
DoorWidths == {Mm(800), Mm(900)}
HingeTypes == {"butt", "concealed", "piano"}
Sides == {"left", "right"}
TopOffsets == {None, Some(Mm(50)), Some(Mm(100)), Some(Mm(150)), Some(Mm(2100))}
BottomOffsets == {None, Some(0), Some(Mm(50)), Some(Mm(150))}
DistributionModes == {"undefined", "even", "weighted"}
EstimatedWeights == {50, 51, 80, 81}

HingeInputs ==
  [doorHeight : DoorHeights,
   doorWidth : DoorWidths,
   leafThickness : {Mm(40)},
   hingeCount : 1..MaxHingeCount,
   hingeType : HingeTypes,
   hingeSide : Sides,
   placementRules : [topOffset : TopOffsets, bottomOffset : BottomOffsets,
                     distributionMode : DistributionModes],
   estimatedWeight : EstimatedWeights]

DefaultLockInput ==
  [doorHeight |-> Mm(2000), doorWidth |-> Mm(800), leafThickness |-> Mm(40),
   lockType |-> "cylinder", lockHeight |-> Mm(1050), edgeOffset |-> Mm(60), edge |-> "right"]

NoHingeCall ==
  [op |-> "none", threw |-> FALSE, valid |-> TRUE, error |-> "", placements |-> <<>>, ys |-> <<>>]

NoLockCall == [op |-> "none", valid |-> TRUE, error |-> "", hingePlacements |-> <<>>]

NoHardwareInput == [calculator |-> "none"]

NoHardwareCall == [op |-> "none"]

DefaultHingeInput ==
  [doorHeight |-> Mm(2000), doorWidth |-> Mm(800), leafThickness |-> Mm(40),
   hingeCount |-> 2, hingeType |-> "butt", hingeSide |-> "left",
   placementRules |-> [topOffset |-> None, bottomOffset |-> None,
                       distributionMode |-> "undefined"],
   estimatedWeight |-> 50]

\* Leafs whose hinges the lock is validated against.
LockLeafHinges ==
  {h \in HingeInputs :
     /\ h.doorHeight \in {Mm(2000), Mm(2100)}
     /\ h.doorWidth = Mm(800)
     /\ h.hingeSide = "left"
     /\ h.estimatedWeight = 50
     /\ h.placementRules.topOffset = None
     /\ h.placementRules.bottomOffset = None
     /\ h.placementRules.distributionMode # "undefined"}

LockTypes == {"cylinder", "mortise", "deadbolt", "smart"}
LockHeights == {Mm(799), Mm(800), Mm(850), Mm(900), Mm(1050), Mm(1150), Mm(1200), Mm(1201)}
LockEdgeOffsets == {Mm(49), Mm(50), Mm(60), Mm(90), Mm(91)}
LockLeafThicknesses == {Mm(34), Mm(35), Mm(37), Mm(38), Mm(39), Mm(40)}

LockInputs ==
  [doorHeight : {Mm(2000)},
   doorWidth : {Mm(800)},
   leafThickness : LockLeafThicknesses,
   lockType : LockTypes,
   lockHeight : LockHeights,
   edgeOffset : LockEdgeOffsets,
   edge : {"right"}]

\* The offsets placeHinges hands to calculateHingeYPositions.
EffectiveTop(input) == OrDefault(input.placementRules.topOffset, Mm(150))
EffectiveBottom(input) == OrDefault(input.placementRules.bottomOffset, Mm(150))

-----------------------------------------------------------------------------
(* The hinge calculator and its callers *)

CallPlaceHinges ==
  /\ LET r == placeHinges(hingeInput)
     IN  hingeOut' = [op |-> "placeHinges", threw |-> r.threw, valid |-> ~r.threw,
                      error |-> r.error, placements |-> r.placements, ys |-> <<>>]
  /\ UNCHANGED <<hingeInput, lockInput, lockOut>>
  /\ UNCHANGED <<hwVars, otherVars>>

CallCalculateHingeYPositions ==
  /\ LET r == calculateHingeYPositions(hingeInput.hingeCount, hingeInput.doorHeight,
                                       EffectiveTop(hingeInput), EffectiveBottom(hingeInput),
                                       OrMode(hingeInput.placementRules.distributionMode))
     IN  hingeOut' = [op |-> "calculateHingeYPositions", threw |-> r.threw, valid |-> ~r.threw,
                      error |-> r.error, placements |-> <<>>, ys |-> r.ys]
  /\ UNCHANGED <<hingeInput, lockInput, lockOut>>
  /\ UNCHANGED <<hwVars, otherVars>>

CallValidateHingeCount ==
  /\ LET r == validateHingeCount(hingeInput.doorHeight, hingeInput.estimatedWeight,
                                 hingeInput.hingeCount)
     IN  hingeOut' = [op |-> "validateHingeCount", threw |-> FALSE, valid |-> r.valid,
                      error |-> r.error, placements |-> <<>>, ys |-> <<>>]
  /\ UNCHANGED <<hingeInput, lockInput, lockOut>>
  /\ UNCHANGED <<hwVars, otherVars>>

CallValidateOffsets ==
  /\ hingeInput.placementRules.topOffset.has
  /\ hingeInput.placementRules.bottomOffset.has
  /\ LET r == validateOffsets(hingeInput.doorHeight, hingeInput.placementRules.topOffset.v,
                              hingeInput.placementRules.bottomOffset.v, hingeInput.hingeCount)
     IN  hingeOut' = [op |-> "validateOffsets", threw |-> FALSE, valid |-> r.valid,
                      error |-> r.error, placements |-> <<>>, ys |-> <<>>]
  /\ UNCHANGED <<hingeInput, lockInput, lockOut>>
  /\ UNCHANGED <<hwVars, otherVars>>

InitHinge ==
  /\ hingeInput \in HingeInputs
  /\ hingeOut = NoHingeCall
  /\ lockInput = DefaultLockInput
  /\ lockOut = NoLockCall
  /\ hwInput = NoHardwareInput
  /\ hwOut = NoHardwareCall
  /\ InitOthersUnused

NextHinge ==
  \/ CallPlaceHinges
  \/ CallCalculateHingeYPositions
  \/ CallValidateHingeCount
  \/ CallValidateOffsets

SpecHinge == InitHinge /\ [][NextHinge]_vars

-----------------------------------------------------------------------------
(* The lock validator, called with the hinges placed so far *)

CallValidateLockPlacement ==
  /\ LET r == validateLockPlacement(lockInput, hingeOut.placements)
     IN  lockOut' = [op |-> "validateLockPlacement", valid |-> r.valid, error |-> r.error,
                     hingePlacements |-> hingeOut.placements]
  /\ UNCHANGED <<hingeInput, hingeOut, lockInput>>
  /\ UNCHANGED <<hwVars, otherVars>>

InitLock ==
  /\ hingeInput \in LockLeafHinges
  /\ hingeOut = NoHingeCall
  /\ lockInput \in LockInputs
  /\ lockOut = NoLockCall
  /\ hwInput = NoHardwareInput
  /\ hwOut = NoHardwareCall
  /\ InitOthersUnused

NextLock ==
  \/ CallPlaceHinges
  \/ CallValidateLockPlacement

SpecLock == InitLock /\ [][NextLock]_vars

-----------------------------------------------------------------------------
(* The lock position calculator and its type-specific adjustments *)

Backsets == {Mm(44), Mm(57), Mm(60)}

LockPositionInputs ==
  [calculator : {"lockPosition"},
   lock : [doorHeight : {Mm(2000)},
           doorWidth : DoorWidths,
           leafThickness : {Mm(40), Mm(45)},
           lockType : LockTypes,
           lockHeight : {Mm(800), Mm(1050), Mm(1200)},
           edgeOffset : {Mm(50), Mm(60), Mm(90)},
           edge : Sides],
   backset : Backsets]

InitOthersIdle ==
  /\ hingeInput = DefaultHingeInput
  /\ hingeOut = NoHingeCall
  /\ lockInput = DefaultLockInput
  /\ lockOut = NoLockCall

CallCalculateLockPosition ==
  /\ hwInput.calculator = "lockPosition"
  /\ hwOut' = [op |-> "calculateLockPosition", position |-> calculateLockPosition(hwInput.lock)]
  /\ UNCHANGED <<hingeInput, hingeOut, lockInput, lockOut, hwInput, otherVars>>

\* A cylinder lock placed with an explicit backset.
CallAdjustCylinderLockPlacement ==
  /\ hwInput.calculator = "lockPosition"
  /\ hwInput.lock.lockType = "cylinder"
  /\ hwOut' = [op |-> "adjustCylinderLockPlacement",
               position |-> adjustCylinderLockPlacement(
                              calculateLockPosition(hwInput.lock),
                              [cylinderDiameter |-> Mm(22), cylinderLength |-> hwInput.lock.leafThickness,
                               backsetDistance |-> hwInput.backset])]
  /\ UNCHANGED <<hingeInput, hingeOut, lockInput, lockOut, hwInput, otherVars>>

\* A mortise lock placed on its standard backset (44 or 57).
CallAdjustMortiseLockPlacement ==
  /\ hwInput.calculator = "lockPosition"
  /\ hwInput.lock.lockType = "mortise"
  /\ hwInput.backset \in {Mm(44), Mm(57)}
  /\ hwOut' = [op |-> "adjustMortiseLockPlacement",
               position |-> adjustMortiseLockPlacement(
                              calculateLockPosition(hwInput.lock), hwInput.lock.edge,
                              hwInput.lock.doorWidth,
                              [bodyWidth |-> Mm(60), bodyHeight |-> Mm(150), bodyDepth |-> Mm(20),
                               backset |-> hwInput.backset])]
  /\ UNCHANGED <<hingeInput, hingeOut, lockInput, lockOut, hwInput, otherVars>>

InitLockPosition ==
  /\ InitOthersIdle
  /\ hwInput \in LockPositionInputs
  /\ hwOut = NoHardwareCall
  /\ InitOthersUnused

NextLockPosition ==
  \/ CallCalculateLockPosition
  \/ CallAdjustCylinderLockPlacement
  \/ CallAdjustMortiseLockPlacement

SpecLockPosition == InitLockPosition /\ [][NextLockPosition]_vars

-----------------------------------------------------------------------------
(* The handle calculator: coordination with the lock, then placement *)

HandleTypes == {"lever", "knob", "pull", "bar"}
HandleSides == {"both", "exterior", "interior"}

\* handleInput is what the calculator receives; heightOverridden records
\* whether the user set handleHeight explicitly (otherwise it is the default
\* 1050); lockHeight is given iff a lock exists on the leaf, and lockPlacement
\* is then that lock's placement.
HandleInputs ==
  {i \in [calculator : {"handle"},
          handle : [doorHeight : {Mm(2000)},
                    doorWidth : DoorWidths,
                    leafThickness : {Mm(40)},
                    handleType : HandleTypes,
                    handleStyle : {"modern"},
                    handleHeight : {Mm(1000), Mm(1050)},
                    side : HandleSides,
                    lockHeight : {None, Some(Mm(900)), Some(Mm(1050))},
                    edge : Sides],
          heightOverridden : BOOLEAN] :
     ~i.heightOverridden => i.handle.handleHeight = Mm(1050)}

\* The placement of the lock of the leaf the handle is on.
LockPlacementOfLeaf(handle) ==
  [id |-> <<"lock">>,
   position |-> calculateLockPosition(
                  [doorHeight |-> handle.doorHeight, doorWidth |-> handle.doorWidth,
                   leafThickness |-> handle.leafThickness, lockType |-> "cylinder",
                   lockHeight |-> handle.lockHeight.v, edgeOffset |-> Mm(60),
                   edge |-> handle.edge]),
   metadata |-> [type |-> "cylinder"]]

CallCoordinateHandleWithLock ==
  /\ hwInput.calculator = "handle"
  /\ hwOut.op = "none"
  /\ hwOut' = [op |-> "coordinateHandleWithLock",
               handleInput |-> coordinateHandleWithLock(hwInput.handle,
                                                        LockPlacementOfLeaf(hwInput.handle))]
  /\ UNCHANGED <<hingeInput, hingeOut, lockInput, lockOut, hwInput, otherVars>>

\* The handle is positioned from the coordinated input, once per requested side.
CallCalculateHandlePosition ==
  /\ hwInput.calculator = "handle"
  /\ hwOut.op = "coordinateHandleWithLock"
  /\ \E side \in {"exterior", "interior"} :
       /\ hwInput.handle.side \in {"both", side}
       /\ hwOut' = [op |-> "calculateHandlePosition", handleInput |-> hwOut.handleInput,
                    side |-> side,
                    position |-> calculateHandlePosition(hwOut.handleInput, side)]
  /\ UNCHANGED <<hingeInput, hingeOut, lockInput, lockOut, hwInput, otherVars>>

InitHandle ==
  /\ InitOthersIdle
  /\ hwInput \in HandleInputs
  /\ hwOut = NoHardwareCall
  /\ InitOthersUnused

NextHandle ==
  \/ CallCoordinateHandleWithLock
  \/ CallCalculateHandlePosition

SpecHandle == InitHandle /\ [][NextHandle]_vars

-----------------------------------------------------------------------------
(* The bolt calculator *)

BoltTypes == {"flush", "surface", "automatic"}

\* positions is a subset of {top, bottom}, in either order.
BoltPositionLists ==
  {<<>>, <<"top">>, <<"bottom">>, <<"top", "bottom">>, <<"bottom", "top">>}

BoltOffsets == {Mm(149), Mm(150), Mm(200), Mm(300), Mm(301)}

BoltInputs ==
  [calculator : {"bolt"},
   bolt : [doorHeight : {Mm(2000)},
           doorWidth : DoorWidths,
           leafThickness : {Mm(30), Mm(39), Mm(40), Mm(45)},
           boltType : BoltTypes,
           positions : BoltPositionLists,
           topOffset : BoltOffsets,
           bottomOffset : BoltOffsets,
           meetingEdge : Sides]]

CallValidateBoltPlacement ==
  /\ hwInput.calculator = "bolt"
  /\ hwOut.op = "none"
  /\ hwOut' = [op |-> "validateBoltPlacement", result |-> validateBoltPlacement(hwInput.bolt)]
  /\ UNCHANGED <<hingeInput, hingeOut, lockInput, lockOut, hwInput, otherVars>>

CallCalculateBoltPositions ==
  /\ hwInput.calculator = "bolt"
  /\ hwOut.op = "none"
  /\ hwOut' = [op |-> "calculateBoltPositions",
               placements |-> calculateBoltPositions(hwInput.bolt)]
  /\ UNCHANGED <<hingeInput, hingeOut, lockInput, lockOut, hwInput, otherVars>>

InitBolt ==
  /\ InitOthersIdle
  /\ hwInput \in BoltInputs
  /\ hwOut = NoHardwareCall
  /\ InitOthersUnused

NextBolt ==
  \/ CallValidateBoltPlacement
  \/ CallCalculateBoltPositions

SpecBolt == InitBolt /\ [][NextBolt]_vars

-----------------------------------------------------------------------------
(* The conflict detector *)

\* metadata.type of a placement, by kind. placeHinges and calculateBoltPositions
\* store the sub-type; a lock's or a handle's placement carries its kind or its
\* sub-type.
MetadataTypes ==
  [hinge |-> {"butt", "concealed"},
   lock |-> {"lock", "cylinder", "mortise"},
   handle |-> {"handle", "lever", "pull"},
   bolt |-> {"flush", "surface"}]

HardwareKinds == {"hinge", "lock", "handle", "bolt"}

\* Offsets of the second placement from the first: along the edge, and the
\* 3-4-5 triangles whose hypotenuse is exactly 50, 100, 150, 200 and 300.
Displacements ==
  {Vector3(0, Mm(d), 0) :
     d \in {0, 24, 25, 26, 49, 50, 51, 74, 75, 99, 100, 101, 149, 150, 199, 200, 299, 300}}
  \cup {Vector3(Mm(30), Mm(40), 0), Vector3(0, Mm(30), Mm(40)), Vector3(Mm(60), Mm(80), 0),
        Vector3(Mm(90), 0, Mm(120)), Vector3(Mm(120), Mm(160), 0),
        Vector3(Mm(180), Mm(240), 0), Vector3(Mm(50), Mm(50), 0),
        Vector3(Mm(70), Mm(70), Mm(10))}

FirstPosition == Vector3(Mm(60), Mm(400), -Mm(20))

HardwareItem(kind, n, type, position) ==
  [id |-> <<kind, n>>, position |-> position, metadata |-> [type |-> type]]

\* The leaf's placement set from two placements a and b.
PlacementSet(a, b, bystander) ==
  LET both == <<a, b>>
      OfKind(kind) == SelectSeq(both, LAMBDA p : p.id[1] = kind)
      locks == OfKind("lock")
  IN  [calculator |-> "conflict",
       hinges |-> OfKind("hinge") \o
                  (IF bystander
                   THEN <<HardwareItem("hinge", 0, "butt", Vector3(0, Mm(1850), -Mm(20)))>>
                   ELSE <<>>),
       lock |-> IF Len(locks) = 0 THEN None ELSE Some(locks[1]),
       handles |-> OfKind("handle"),
       bolts |-> OfKind("bolt")]

ConflictInputs ==
  {PlacementSet(HardwareItem(k1, 1, t1, FirstPosition),
                HardwareItem(k2, 2, t2, Vector3(FirstPosition.x + d.x, FirstPosition.y + d.y,
                                                FirstPosition.z + d.z)),
                bystander) :
     <<k1, t1, k2, t2, d, bystander>> \in
       {c \in HardwareKinds \X {TypeOrder[k] : k \in 1..Len(TypeOrder)} \X HardwareKinds \X {TypeOrder[k] : k \in 1..Len(TypeOrder)}
              \X Displacements \X BOOLEAN :
          /\ c[2] \in MetadataTypes[c[1]]
          /\ c[4] \in MetadataTypes[c[3]]
          /\ ~(c[1] = "lock" /\ c[3] = "lock")}}

CallDetectHardwareConflicts ==
  /\ hwInput.calculator = "conflict"
  /\ hwOut.op = "none"
  /\ hwOut' = [op |-> "detectHardwareConflicts",
               conflicts |-> detectHardwareConflicts(hwInput.hinges, hwInput.lock,
                                                     hwInput.handles, hwInput.bolts)]
  /\ UNCHANGED <<hingeInput, hingeOut, lockInput, lockOut, hwInput, otherVars>>

InitConflict ==
  /\ InitOthersIdle
  /\ hwInput \in ConflictInputs
  /\ hwOut = NoHardwareCall
  /\ InitOthersUnused

NextConflict == CallDetectHardwareConflicts

SpecConflict == InitConflict /\ [][NextConflict]_vars

-----------------------------------------------------------------------------
(* The double-door coordinator *)

OppositeSide(side) == IF side = "left" THEN "right" ELSE "left"

\* A leaf's configuration: its hinge side and the hardware selected for it.
\* The lock and handle are on the opening edge and the bolts on the meeting
\* edge, both opposite the hinges.
LeafConfigs ==
  {[hingeCount |-> n, hingeType |-> t, hingeSide |-> side,
    placementRules |-> [topOffset |-> None, bottomOffset |-> None,
                        distributionMode |-> "undefined"],
    estimatedWeight |-> 50,
    lockType |-> lockType, lockHeight |-> Mm(1050), edgeOffset |-> Mm(60),
    edge |-> OppositeSide(side),
    handleType |-> "lever", handleStyle |-> "modern", handleHeight |-> Mm(1050),
    boltType |-> boltType, topOffset |-> Mm(200),
    bottomOffset |-> Mm(200), meetingEdge |-> OppositeSide(side)] :
     n \in 2..3, t \in HingeTypes, side \in Sides,
     lockType \in {"cylinder", "mortise"}, boltType \in {"flush", "surface"}}

DoorDimensionsSet ==
  [doorHeight : {Mm(2000), Mm(2100)}, doorWidth : DoorWidths, leafThickness : {Mm(40)}]

AstragalTypes == {"none", "surface", "overlap"}

DoubleDoorInputs ==
  {i \in [calculator : {"double"}, activeLeaf : LeafConfigs, inactiveLeaf : LeafConfigs,
          dimensions : DoorDimensionsSet, astragalType : AstragalTypes] :
     \* the lock type matters on the active leaf only, the bolt type on the
     \* inactive leaf only
     /\ i.inactiveLeaf.lockType = "cylinder"
     /\ i.activeLeaf.boltType = "flush"}

CallPlaceHardwareForDoubleDoors ==
  /\ hwInput.calculator = "double"
  /\ hwOut.op = "none"
  /\ hwOut' = [op |-> "placeHardwareForDoubleDoors",
               result |-> placeHardwareForDoubleDoors(hwInput.activeLeaf,
                            hwInput.inactiveLeaf, hwInput.dimensions)]
  /\ UNCHANGED <<hingeInput, hingeOut, lockInput, lockOut, hwInput, otherVars>>

CallCalculateMeetingEdgeGap ==
  /\ hwInput.calculator = "double"
  /\ hwOut.op = "none"
  /\ hwOut' = [op |-> "calculateMeetingEdgeGap",
               gap |-> calculateMeetingEdgeGap(hwInput.dimensions.doorWidth,
                                               hwInput.dimensions.doorWidth,
                                               hwInput.astragalType)]
  /\ UNCHANGED <<hingeInput, hingeOut, lockInput, lockOut, hwInput, otherVars>>

InitDouble ==
  /\ InitOthersIdle
  /\ hwInput \in DoubleDoorInputs
  /\ hwOut = NoHardwareCall
  /\ InitOthersUnused

NextDouble ==
  \/ CallPlaceHardwareForDoubleDoors
  \/ CallCalculateMeetingEdgeGap

SpecDouble == InitDouble /\ [][NextDouble]_vars

-----------------------------------------------------------------------------
(* The animation controller's use of the state machine *)

MaxTime == 2000

\* The time between two frames, in ms.
FrameSteps == {250}

OpeningAngles == {Degrees(90), Degrees(120)}

Durations == {500, 750}

EasingNames == {"linear", "easeInOut"}

\* The door at rest before its first command.
ClosedDoors ==
  [currentState : {"CLOSED"}, targetState : {"CLOSED"}, progress : {0}, currentAngle : {0},
   targetAngle : OpeningAngles, startTime : {0}, duration : Durations,
   easingFunction : EasingNames, metadata : {[doorId |-> "primary", isActive |-> TRUE]}]

\* A door the controller paused while it was opening.
PausedDoors ==
  {[d EXCEPT !.currentState = "PAUSED", !.targetState = "OPEN", !.progress = 400,
             !.currentAngle = lerp(0, d.targetAngle, Ease(d.easingFunction, 400))] :
     d \in ClosedDoors}

NoAnimationCall == [op |-> "none"]

Tick ==
  /\ \E step \in FrameSteps :
       /\ now + step <= MaxTime
       /\ now' = now + step
  /\ UNCHANGED <<calculatorVars, callLog, animationVars, debouncerVars, applicationVars>>

CallExecuteTransition ==
  /\ \E to \in DoorState :
       /\ door' = executeTransition(door, to)
       /\ animCall' = [op |-> "executeTransition", to |-> to, before |-> door, time |-> now]
  /\ UNCHANGED <<calculatorVars, callLog, inactiveDoor, now, debouncerVars, applicationVars>>

CallUpdateDoorAnimation ==
  /\ door' = updateDoorAnimation(door, now)
  /\ animCall' = [op |-> "updateDoorAnimation", before |-> door, time |-> now]
  /\ UNCHANGED <<calculatorVars, callLog, inactiveDoor, now, debouncerVars, applicationVars>>

\* The opening command of the inactive leaf: a null result starts nothing.
CallCoordinateInactiveLeafOpening ==
  /\ inactiveDoor = NullState
  /\ LET result == coordinateInactiveLeafOpening("secondary", door)
     IN  /\ inactiveDoor' = result
         /\ animCall' = [op |-> "coordinateInactiveLeafOpening", activeLeafState |-> door,
                         result |-> result, time |-> now]
  /\ UNCHANGED <<calculatorVars, callLog, door, now, debouncerVars, applicationVars>>

CallUpdateInactiveLeaf ==
  /\ inactiveDoor # NullState
  /\ inactiveDoor' = updateDoorAnimation(inactiveDoor, now)
  /\ animCall' = [op |-> "updateDoorAnimation (inactive leaf)", before |-> inactiveDoor,
                  time |-> now]
  /\ UNCHANGED <<calculatorVars, callLog, door, now, debouncerVars, applicationVars>>

InitCalculatorsIdle ==
  /\ InitOthersIdle
  /\ hwInput = NoHardwareInput
  /\ hwOut = NoHardwareCall

InitAnimation ==
  /\ InitCalculatorsIdle
  /\ callLog = Unused
  /\ InitDebouncerIdle
  /\ InitApplicationIdle
  /\ now = 0
  /\ door \in ClosedDoors \cup PausedDoors
  /\ inactiveDoor = Unused
  /\ animCall = NoAnimationCall

NextAnimation ==
  \/ Tick
  \/ CallExecuteTransition
  \/ CallUpdateDoorAnimation

SpecAnimation == InitAnimation /\ [][NextAnimation]_vars

\* The controller's update runs on every frame and the clock advances.
SpecAnimationLive ==
  SpecAnimation /\ WF_vars(Tick) /\ WF_vars(CallUpdateDoorAnimation)

-----------------------------------------------------------------------------
(* Repeated calls of the calculators on the configuration the caller holds *)

MaxCalls == 3

\* The configuration objects the caller passes, by reference, to every call.
RepeatedCallInputs ==
  [calculator : {"all"},
   handle : {h.handle : h \in {i \in HandleInputs :
                                 /\ i.handle.handleType \in {"lever", "pull"}
                                 /\ i.handle.side = "both"
                                 /\ i.handle.edge = "right"
                                 /\ i.handle.doorWidth = Mm(800)
                                 /\ i.handle.lockHeight = Some(Mm(1050))
                                 /\ i.handle.handleHeight = Mm(1050)}},
   bolt : {b.bolt : b \in {i \in BoltInputs :
                             /\ i.bolt.boltType \in {"flush", "surface"}
                             /\ i.bolt.positions = <<"top", "bottom">>
                             /\ i.bolt.topOffset = Mm(200)
                             /\ i.bolt.bottomOffset = Mm(200)
                             /\ i.bolt.leafThickness = Mm(40)
                             /\ i.bolt.doorWidth = Mm(800)
                             /\ i.bolt.meetingEdge = "left"}}]

RepeatedHingeInputs ==
  {h \in HingeInputs :
     /\ h.doorHeight = Mm(2000)
     /\ h.doorWidth = Mm(800)
     /\ h.hingeCount \in {2, 4}
     /\ h.hingeType \in {"butt", "piano"}
     /\ h.hingeSide = "left"
     /\ h.placementRules = [topOffset |-> None, bottomOffset |-> None,
                            distributionMode |-> "weighted"]
     /\ h.estimatedWeight = 50}

RepeatedLockInputs ==
  {l \in LockInputs :
     /\ l.leafThickness = Mm(40)
     /\ l.lockType \in {"cylinder", "mortise"}
     /\ l.lockHeight = Mm(1050)
     /\ l.edgeOffset = Mm(60)}

\* The placements the conflict detector is given: those the other calculators
\* return for the configuration held.
LeafPlacements ==
  [hinges |-> LET r == placeHinges(hingeInput)
              IN  SelectSeq(r.placements, LAMBDA p : "id" \in DOMAIN p),
   lock |-> Some([id |-> <<"lock">>, position |-> calculateLockPosition(lockInput),
                  metadata |-> [type |-> lockInput.lockType]]),
   handles |-> placeHandle(hwInput.handle),
   bolts |-> calculateBoltPositions(hwInput.bolt)]

Logged(calculator, output) ==
  /\ Len(callLog) < MaxCalls
  /\ callLog' = Append(callLog, [calculator |-> calculator, output |-> output])
  /\ UNCHANGED <<calculatorVars, animationVars, now, debouncerVars, applicationVars>>

RepeatPlaceHinges == Logged("hinge", placeHinges(hingeInput))

RepeatLock ==
  Logged("lock",
         [position |-> calculateLockPosition(lockInput),
          validation |-> validateLockPlacement(lockInput, placeHinges(hingeInput).placements)])

RepeatHandle ==
  Logged("handle",
         <<calculateHandlePosition(hwInput.handle, "exterior"),
           calculateHandlePosition(hwInput.handle, "interior")>>)

RepeatBolts == Logged("bolt", calculateBoltPositions(hwInput.bolt))

RepeatConflicts ==
  Logged("conflict",
         detectHardwareConflicts(LeafPlacements.hinges, LeafPlacements.lock,
                                 LeafPlacements.handles, LeafPlacements.bolts))

InitRepeated ==
  /\ hingeInput \in RepeatedHingeInputs
  /\ hingeOut = NoHingeCall
  /\ lockInput \in RepeatedLockInputs
  /\ lockOut = NoLockCall
  /\ hwInput \in RepeatedCallInputs
  /\ hwOut = NoHardwareCall
  /\ callLog = <<>>
  /\ now = 0
  /\ InitAnimationIdle
  /\ InitDebouncerIdle
  /\ InitApplicationIdle

NextRepeated ==
  \/ RepeatPlaceHinges
  \/ RepeatLock
  \/ RepeatHandle
  \/ RepeatBolts
  \/ RepeatConflicts

SpecRepeated == InitRepeated /\ [][NextRepeated]_vars

-----------------------------------------------------------------------------
(* Double door coordination: the active leaf's animation and the inactive
   leaf's opening command *)

InitCoordination ==
  /\ InitCalculatorsIdle
  /\ callLog = Unused
  /\ InitDebouncerIdle
  /\ InitApplicationIdle
  /\ now = 0
  /\ door \in {d \in ClosedDoors \cup PausedDoors :
                 d.duration = 500 /\ d.easingFunction = "linear"}
  /\ inactiveDoor = NullState
  /\ animCall = NoAnimationCall

NextCoordination ==
  \/ Tick
  \/ CallExecuteTransition
  \/ CallUpdateDoorAnimation
  \/ CallCoordinateInactiveLeafOpening
  \/ CallUpdateInactiveLeaf

SpecCoordination == InitCoordination /\ [][NextCoordination]_vars

-----------------------------------------------------------------------------
(* The parameter update debouncer and the window's timers *)

debounceDelay == 300

\* debounceTimer is number | null, and a timer id is a positive number.
NullTimer == 0

\* pendingUpdate is DoorConfiguration | null.
NullConfig == "null"

MaxUpdateCalls == 3

\* The last moment of the page's clock, in ms.
MaxDebounceTime == 700

\* The configurations the user interface schedules.
DoorConfigurations == {"narrowDoor", "wideDoor"}

\* The time between two events of the page, in ms.
DebounceSteps == {100}

NewDebouncer == [pendingUpdate |-> NullConfig, debounceTimer |-> NullTimer]

NoTimers == [nextId |-> 1, pending |-> {}]

\* window.setTimeout(callback, delay): the debouncer's callback is the only one.
setTimeout(windowTimers, delay) ==
  [nextId |-> windowTimers.nextId + 1,
   pending |-> windowTimers.pending \cup
                 {[id |-> windowTimers.nextId, due |-> now + delay]}]

clearTimeout(windowTimers, id) ==
  [windowTimers EXCEPT !.pending = {t \in @ : t.id # id}]

\* executeUpdate(config), as the entry it leaves in the log of calls.
executeUpdate(config, from) ==
  [call |-> "executeUpdate", config |-> config, time |-> now, from |-> from]

\* scheduleUpdate without the clearTimeout of the timer set before.
scheduleUpdate_KeepsOldTimer(config) ==
  [debouncer |-> [pendingUpdate |-> config, debounceTimer |-> timers.nextId],
   timers |-> setTimeout(timers, debounceDelay),
   runs |-> <<>>]

scheduleUpdate(config) ==
  LET cleared == IF debouncer.debounceTimer # NullTimer
                   THEN clearTimeout(timers, debouncer.debounceTimer)
                   ELSE timers
  IN [debouncer |-> [pendingUpdate |-> config, debounceTimer |-> cleared.nextId],
      timers |-> setTimeout(cleared, debounceDelay),
      runs |-> <<>>]

\* The callback scheduleUpdate hands to window.setTimeout.
debounceCallback ==
  [debouncer |-> [pendingUpdate |-> NullConfig, debounceTimer |-> NullTimer],
   timers |-> timers,
   runs |-> IF debouncer.pendingUpdate # NullConfig
              THEN <<executeUpdate(debouncer.pendingUpdate, "timer")>>
              ELSE <<>>]

flush ==
  IF debouncer.debounceTimer # NullTimer
    THEN [debouncer |-> [pendingUpdate |-> NullConfig, debounceTimer |-> NullTimer],
          timers |-> clearTimeout(timers, debouncer.debounceTimer),
          runs |-> IF debouncer.pendingUpdate # NullConfig
                     THEN <<executeUpdate(debouncer.pendingUpdate, "flush")>>
                     ELSE <<>>]
    ELSE [debouncer |-> debouncer, timers |-> timers, runs |-> <<>>]

CallScheduleUpdate ==
  /\ timers.nextId <= MaxUpdateCalls
  /\ now + debounceDelay <= MaxDebounceTime
  /\ \E config \in DoorConfigurations :
       LET after == scheduleUpdate(config)
       IN /\ debouncer' = after.debouncer
          /\ timers' = after.timers
          /\ executed' = Append(executed, [call |-> "scheduleUpdate", config |-> config,
                                           time |-> now, from |-> "caller"])
  /\ UNCHANGED <<calculatorVars, callLog, animationVars, now, applicationVars>>

\* The window runs a timer whose delay has elapsed, and forgets it.
TimerFires ==
  /\ \E t \in timers.pending :
       /\ t.due <= now
       /\ LET after == debounceCallback
          IN /\ debouncer' = after.debouncer
             /\ timers' = clearTimeout(after.timers, t.id)
             /\ executed' = executed \o after.runs
  /\ UNCHANGED <<calculatorVars, callLog, animationVars, now, applicationVars>>

CallFlush ==
  /\ LET after == flush
     IN /\ debouncer' = after.debouncer
        /\ timers' = after.timers
        /\ executed' = executed \o after.runs
  /\ UNCHANGED <<calculatorVars, callLog, animationVars, now, applicationVars>>

\* Time passes, up to the moment the next timer is due: the window runs a timer
\* when its delay has elapsed.
DebounceTick ==
  /\ \E step \in DebounceSteps :
       /\ now + step <= MaxDebounceTime
       /\ \A t \in timers.pending : now + step <= t.due
       /\ now' = now + step
  /\ UNCHANGED <<calculatorVars, callLog, animationVars, debouncerVars, applicationVars>>

InitDebouncer ==
  /\ InitCalculatorsIdle
  /\ callLog = Unused
  /\ InitAnimationIdle
  /\ InitApplicationIdle
  /\ now = 0
  /\ debouncer = NewDebouncer
  /\ timers = NoTimers
  /\ executed = <<>>

NextDebouncer ==
  \/ CallScheduleUpdate
  \/ TimerFires
  \/ CallFlush
  \/ DebounceTick

\* The page's event loop runs the timers that are due, and time passes.
SpecDebouncer ==
  InitDebouncer /\ [][NextDebouncer]_vars /\ WF_vars(TimerFires) /\ WF_vars(DebounceTick)

-----------------------------------------------------------------------------
(* The application: DoorConfigurator's render loop, the PerformanceMonitor's
   update loop and the window's animation-frame requests *)

MaxFrameRequests == 8

\* requestAnimationFrame(callback): the id it returns is the one it registers.
requestAnimationFrame(windowFrames, callback) ==
  [nextId |-> windowFrames.nextId + 1,
   pending |-> windowFrames.pending \cup {[id |-> windowFrames.nextId, callback |-> callback]}]

cancelAnimationFrame(windowFrames, id) ==
  [windowFrames EXCEPT !.pending = {f \in @ : f.id # id}]

\* Math.round of a / b, for a >= 0 and b > 0.
MathRound(a, b) == (2 * a + b) \div (2 * b)

\* new PerformanceMonitor(): lastTime = performance.now(), startMonitoring().
NewPerformanceMonitor ==
  [monitor |-> [frameCount |-> 0, lastTime |-> performanceNow, fps |-> 0, frameTime |-> 0],
   frames |-> requestAnimationFrame([nextId |-> 1, pending |-> {}], "update")]

\* PerformanceMonitor.update(); frameTime is kept in microseconds.
PerformanceMonitorUpdate ==
  LET currentTime == performanceNow
      deltaTime == currentTime - monitor.lastTime
      frameCount == monitor.frameCount + 1
  IN [monitor |-> IF deltaTime >= 1000
                    THEN [frameCount |-> 0, lastTime |-> currentTime,
                          fps |-> MathRound(frameCount * 1000, deltaTime),
                          frameTime |-> (deltaTime * 1000) \div frameCount]
                    ELSE [monitor EXCEPT !.frameCount = frameCount],
      frames |-> requestAnimationFrame(frames, "update")]

\* DoorConfigurator.animate(): render() draws and changes no field.
animate ==
  [app |-> [app EXCEPT !.frameId = frames.nextId],
   frames |-> requestAnimationFrame(frames, "animate")]

\* DoorConfigurator.dispose().
dispose ==
  [app |-> [app EXCEPT !.disposed = TRUE],
   frames |-> cancelAnimationFrame(frames, app.frameId)]

\* The window runs the render loop's pending request.
AnimateFrame ==
  /\ frames.nextId <= MaxFrameRequests
  /\ \E f \in frames.pending :
       /\ f.callback = "animate"
       /\ LET after == animate
          IN /\ app' = after.app
             /\ frames' = cancelAnimationFrame(after.frames, f.id)
  /\ UNCHANGED <<calculatorVars, callLog, animationVars, now, debouncerVars, monitor>>

\* The window runs the monitor's pending request.
MonitorFrame ==
  /\ frames.nextId <= MaxFrameRequests
  /\ \E f \in frames.pending :
       /\ f.callback = "update"
       /\ LET after == PerformanceMonitorUpdate
          IN /\ monitor' = after.monitor
             /\ frames' = cancelAnimationFrame(after.frames, f.id)
  /\ UNCHANGED <<calculatorVars, callLog, animationVars, now, debouncerVars, app>>

\* dispose() is called from outside a frame callback.
CallDispose ==
  /\ ~app.disposed
  /\ LET after == dispose
     IN /\ app' = after.app
        /\ frames' = after.frames
  /\ UNCHANGED <<calculatorVars, callLog, animationVars, now, debouncerVars, monitor>>

\* The state new DoorConfigurator() leaves: the monitor is constructed first,
\* then initialize() calls animate() once.
InitApplication ==
  /\ InitCalculatorsIdle
  /\ callLog = Unused
  /\ InitAnimationIdle
  /\ InitDebouncerIdle
  /\ now = 0
  /\ monitor = NewPerformanceMonitor.monitor
  /\ app = [frameId |-> NewPerformanceMonitor.frames.nextId, disposed |-> FALSE]
  /\ frames = requestAnimationFrame(NewPerformanceMonitor.frames, "animate")

NextApplication ==
  \/ Tick
  \/ AnimateFrame
  \/ MonitorFrame
  \/ CallDispose

SpecApplication == InitApplication /\ [][NextApplication]_vars

-----------------------------------------------------------------------------
(* One leaf's lock and handles: validation, placement, coordination and
   conflict detection in the order the placement pipeline calls them *)

\* metadata.type of the lock's and the handles' placements: the kind of
\* hardware, or the sub-type as placeHinges and calculateBoltPositions store it.
TypeConventions == {"kind", "subType"}

LeafHingeInputs ==
  {h \in LockLeafHinges :
     /\ h.doorHeight = Mm(2000)
     /\ h.hingeType = "butt"
     /\ h.hingeCount \in {2, 3}
     /\ h.leafThickness = Mm(40)
     /\ h.placementRules.distributionMode = "even"}

LeafLockInputs ==
  {l \in LockInputs : l.lockHeight \in {Mm(900), Mm(1050)} /\ l.edgeOffset \in {Mm(60), Mm(90)}}

\* The handle input of the leaf the lock is on: same leaf, same edge, and
\* lockHeight given because the lock exists.
LeafHandleInputs(lock) ==
  [doorHeight : {lock.doorHeight},
   doorWidth : {lock.doorWidth},
   leafThickness : {lock.leafThickness},
   handleType : HandleTypes,
   handleStyle : {"modern"},
   handleHeight : {Mm(1000), Mm(1050)},
   side : HandleSides,
   lockHeight : {Some(lock.lockHeight)},
   edge : {lock.edge}]

NoLeafCall ==
  [op |-> "none", validation |-> [valid |-> FALSE, error |-> ""], lock |-> None,
   coordinated |-> None, handles |-> <<>>, conflicts |-> <<>>]

CallValidateLockOfLeaf ==
  /\ hwInput.calculator = "leaf"
  /\ hwOut.op = "none"
  /\ hwOut' = [hwOut EXCEPT
                 !.op = "validateLockPlacement",
                 !.validation = validateLockPlacement(lockInput,
                                                      placeHinges(hingeInput).placements)]
  /\ UNCHANGED <<hingeInput, hingeOut, lockInput, lockOut, hwInput, otherVars>>

\* The lock is placed once its input has passed validation.
CallCalculateLockPositionOfLeaf ==
  /\ hwInput.calculator = "leaf"
  /\ hwOut.op = "validateLockPlacement"
  /\ hwOut.validation.valid
  /\ hwOut' = [hwOut EXCEPT
                 !.op = "calculateLockPosition",
                 !.lock = Some(HardwareItem("lock", 1,
                                            IF hwInput.typeConvention = "kind"
                                              THEN "lock" ELSE lockInput.lockType,
                                            calculateLockPosition(lockInput)))]
  /\ UNCHANGED <<hingeInput, hingeOut, lockInput, lockOut, hwInput, otherVars>>

\* The handle input is coordinated with the lock's placement, and one handle
\* is placed per requested side.
CallPlaceCoordinatedHandles ==
  /\ hwInput.calculator = "leaf"
  /\ hwOut.op = "calculateLockPosition"
  /\ LET coordinated == coordinateHandleWithLock(hwInput.handle, hwOut.lock.v)
         sides == IF coordinated.side = "both"
                    THEN <<"exterior", "interior">> ELSE <<coordinated.side>>
     IN  hwOut' = [hwOut EXCEPT
                     !.op = "calculateHandlePosition",
                     !.coordinated = Some(coordinated),
                     !.handles = [k \in 1..Len(sides) |->
                                    HardwareItem("handle", k,
                                                 IF hwInput.typeConvention = "kind"
                                                   THEN "handle" ELSE coordinated.handleType,
                                                 calculateHandlePosition(coordinated, sides[k]))]]
  /\ UNCHANGED <<hingeInput, hingeOut, lockInput, lockOut, hwInput, otherVars>>

CallDetectLeafConflicts ==
  /\ hwInput.calculator = "leaf"
  /\ hwOut.op = "calculateHandlePosition"
  /\ hwOut' = [hwOut EXCEPT
                 !.op = "detectHardwareConflicts",
                 !.conflicts = detectHardwareConflicts(placeHinges(hingeInput).placements,
                                                       hwOut.lock, hwOut.handles, <<>>)]
  /\ UNCHANGED <<hingeInput, hingeOut, lockInput, lockOut, hwInput, otherVars>>

InitLeaf ==
  /\ hingeInput \in LeafHingeInputs
  /\ hingeOut = NoHingeCall
  /\ lockInput \in LeafLockInputs
  /\ lockOut = NoLockCall
  /\ hwInput \in {i \in [calculator : {"leaf"},
                         handle : LeafHandleInputs(lockInput),
                         typeConvention : TypeConventions] : TRUE}
  /\ hwOut = NoLeafCall
  /\ InitOthersUnused

NextLeaf ==
  \/ CallValidateLockOfLeaf
  \/ CallCalculateLockPositionOfLeaf
  \/ CallPlaceCoordinatedHandles
  \/ CallDetectLeafConflicts

SpecLeaf == InitLeaf /\ [][NextLeaf]_vars

-----------------------------------------------------------------------------
(* Properties of the hinge calculator *)

HingesPlaced == hingeOut.op = "placeHinges" /\ ~hingeOut.threw

HingeEdgeX == IF hingeInput.hingeSide = "left" THEN 0 ELSE hingeInput.doorWidth

Abs(n) == IF n < 0 THEN -n ELSE n

\* C1 (as stated): every placement returned by placeHinges has X exactly 0 for
\* hingeSide = left and exactly doorWidth for hingeSide = right, no offset added.
C1_HingeXExactlyOnEdge ==
  HingesPlaced =>
    \A k \in 1..Len(hingeOut.placements) : hingeOut.placements[k].position.x = HingeEdgeX

\* C1 (amended): the X of a returned placement is the hinge-side edge (0 or
\* doorWidth) exactly for a piano hinge only; a butt hinge lies 6mm (half the
\* 12mm barrel) and a concealed hinge 5mm away from that edge, for every
\* count, offset, mode and width.
C1_HingeXEdgePlusTypeOffset ==
  HingesPlaced =>
    \A k \in 1..Len(hingeOut.placements) :
      Abs(hingeOut.placements[k].position.x - HingeEdgeX) =
        (CASE hingeInput.hingeType = "piano" -> 0
           [] hingeInput.hingeType = "butt" -> Mm(6)
           [] hingeInput.hingeType = "concealed" -> Mm(5))

C1_Witness ==
  /\ HingesPlaced
  /\ hingeInput.hingeType = "concealed"
  /\ hingeInput.hingeSide = "right"
  /\ hingeInput.doorWidth = Mm(900)
  /\ Len(hingeOut.placements) = 3
  /\ hingeOut.placements[3].position.x = Mm(895)

\* C2: every placement a calculator returns has Y within [0, doorHeight];
\* stated here for the placements of placeHinges.
C2_HingeYWithinDoor ==
  HingesPlaced =>
    \A k \in 1..Len(hingeOut.placements) :
      /\ hingeOut.placements[k].position.y >= 0
      /\ hingeOut.placements[k].position.y <= hingeInput.doorHeight

EvenCall ==
  /\ hingeOut.op = "calculateHingeYPositions"
  /\ ~hingeOut.threw
  /\ OrMode(hingeInput.placementRules.distributionMode) = "even"
  /\ hingeInput.hingeCount >= 2

HingeSpan == hingeInput.doorHeight - EffectiveTop(hingeInput) - EffectiveBottom(hingeInput)

Ascending(s) == \A i \in 1..(Len(s) - 1) : s[i] <= s[i + 1]

SpecMinRequired ==
  IF hingeInput.estimatedWeight > 80 THEN 4
  ELSE IF hingeInput.doorHeight > Mm(2100) \/ hingeInput.estimatedWeight > 50 THEN 3
  ELSE 2

SuppliedTop == IF hingeInput.placementRules.topOffset.has
               THEN hingeInput.placementRules.topOffset.v ELSE Mm(150)
SuppliedBottom == IF hingeInput.placementRules.bottomOffset.has
                  THEN hingeInput.placementRules.bottomOffset.v ELSE Mm(150)

\* C5: placeHinges returns no placement when topOffset < 100, bottomOffset < 100
\* or doorHeight - topOffset - bottomOffset < (hingeCount - 2) * 150.
C5_OffsetsValidatedBeforePlacing ==
  HingesPlaced =>
    /\ SuppliedTop >= Mm(100)
    /\ SuppliedBottom >= Mm(100)
    /\ hingeInput.doorHeight - SuppliedTop - SuppliedBottom
         >= (hingeInput.hingeCount - 2) * Mm(150)

\* C6: the list placeHinges returns ascends in Y, metadata.index of the k-th
\* element is k and metadata.yPosition is the Y the element is placed at.
C6_IndexOrderIsVerticalOrder ==
  HingesPlaced =>
    /\ \A k \in 1..Len(hingeOut.placements) :
         /\ "index" \in DOMAIN hingeOut.placements[k].metadata
         /\ hingeOut.placements[k].metadata.index = k - 1
         /\ "yPosition" \in DOMAIN hingeOut.placements[k].metadata
         /\ hingeOut.placements[k].metadata.yPosition = hingeOut.placements[k].position.y
    /\ \A k \in 1..(Len(hingeOut.placements) - 1) :
         hingeOut.placements[k].position.y <= hingeOut.placements[k + 1].position.y

\* C7: a piano hinge yields one placement at Y = doorHeight / 2, X on the
\* hinge-side edge, Z = 0, metadata.length = doorHeight, carrying the id and
\* index metadata every hinge placement carries.
C7_PianoPlacement ==
  (HingesPlaced /\ hingeInput.hingeType = "piano") =>
    /\ Len(hingeOut.placements) = 1
    /\ hingeOut.placements[1].position =
         Vector3(HingeEdgeX, hingeInput.doorHeight \div 2, 0)
    /\ hingeOut.placements[1].metadata.length = hingeInput.doorHeight
    /\ "id" \in DOMAIN hingeOut.placements[1]
    /\ "index" \in DOMAIN hingeOut.placements[1].metadata

\* C8: type-specific refinement moves the hinge toward the leaf interior: a
\* butt hinge 6mm inward from the hinge edge, a concealed hinge 5mm inward and
\* at Z = -(cupDepth / 2), for both hinge sides.
C8_RefinementMovesInward ==
  HingesPlaced =>
    \A k \in 1..Len(hingeOut.placements) :
      LET p == hingeOut.placements[k].position
          inward == IF hingeInput.hingeSide = "left" THEN 1 ELSE -1
      IN  /\ hingeInput.hingeType = "butt" => p.x = HingeEdgeX + inward * Mm(6)
          /\ hingeInput.hingeType = "concealed" =>
               (p.x = HingeEdgeX + inward * Mm(5) /\ p.z = -Mm(6))
          /\ hingeInput.hingeType # "piano" => (p.x >= 0 /\ p.x <= hingeInput.doorWidth)

-----------------------------------------------------------------------------
(* Properties of the lock validator *)

LockValidated == lockOut.op = "validateLockPlacement"

\* Some hinge of the list the validator was given is closer than 150mm
\* vertically to the lock.
HingeWithin150 ==
  \E k \in 1..Len(lockOut.hingePlacements) :
    Abs(lockOut.hingePlacements[k].position.y - lockInput.lockHeight) < Mm(150)

\* The minimum-per-type thickness table as the specification words it.
SpecMinThickness ==
  CASE lockInput.lockType = "cylinder" -> Mm(35)
    [] lockInput.lockType = "mortise" -> Mm(40)
    [] lockInput.lockType = "deadbolt" -> Mm(38)
    [] lockInput.lockType = "smart" -> Mm(40)

LockInRange ==
  /\ lockInput.lockHeight >= Mm(800)
  /\ lockInput.lockHeight <= Mm(1200)
  /\ lockInput.edgeOffset >= Mm(50)
  /\ lockInput.edgeOffset <= Mm(90)
  /\ lockInput.leafThickness >= SpecMinThickness

\* C9: with no hinge within 150mm of the lock, validateLockPlacement returns
\* valid iff 800 <= lockHeight <= 1200, 50 <= edgeOffset <= 90 and
\* leafThickness >= the per-type minimum (boundaries accepted); a violated rule
\* yields a failure with its reason.
C9_LockRangeRules ==
  (LockValidated /\ ~HingeWithin150) =>
    /\ lockOut.valid <=> LockInRange
    /\ ~lockOut.valid => lockOut.error # ""
    /\ (lockInput.lockHeight < Mm(800) \/ lockInput.lockHeight > Mm(1200)) =>
         lockOut.error = "Lock height must be between 800-1200mm"

C9_Witness ==
  /\ LockValidated
  /\ Len(lockOut.hingePlacements) = 2
  /\ lockInput.lockHeight = Mm(800)
  /\ lockInput.edgeOffset = Mm(90)
  /\ lockInput.lockType = "deadbolt"
  /\ lockInput.leafThickness = Mm(38)
  /\ lockOut.valid

\* C10: for a lock whose height, edge offset and thickness are in range,
\* validateLockPlacement fails with a hinge-proximity violation iff some hinge
\* of the supplied list has |hinge Y - lockHeight| < 150; exactly 150 passes.
C10_HingeProximity ==
  (LockValidated /\ LockInRange) =>
    /\ ~lockOut.valid <=> HingeWithin150
    /\ ~lockOut.valid => lockOut.error = "Lock conflicts with hinge"

C10_Witness ==
  /\ LockValidated
  /\ LockInRange
  /\ lockInput.lockHeight = Mm(850)
  /\ Len(lockOut.hingePlacements) = 3
  /\ lockOut.hingePlacements[2].position.y = Mm(1000)
  /\ lockOut.valid

-----------------------------------------------------------------------------
(* Properties of the lock position calculator *)

\* The distance d the lock is placed at from its opening edge.
LockDistanceFromEdge ==
  IF hwOut.op = "calculateLockPosition" THEN hwInput.lock.edgeOffset ELSE hwInput.backset

\* C11: lock X is measured from the opening edge and mirrored for the right
\* edge for every lock type: X = d for edge = left and X = doorWidth - d for
\* edge = right, d being edgeOffset, the cylinder's backset or the mortise's
\* standard backset; Y always equals lockHeight.
C11_LockXMirrored ==
  hwOut.op \in {"calculateLockPosition", "adjustCylinderLockPlacement",
                "adjustMortiseLockPlacement"} =>
    /\ hwOut.position.x = (IF hwInput.lock.edge = "left" THEN LockDistanceFromEdge
                           ELSE hwInput.lock.doorWidth - LockDistanceFromEdge)
    /\ hwOut.position.y = hwInput.lock.lockHeight

-----------------------------------------------------------------------------
(* Properties of the handle calculator *)

HandlePlaced == hwOut.op = "calculateHandlePosition"

LockOnLeaf == hwInput.handle.lockHeight.has

\* C12: with a lock present and no explicit handle height override the
\* handle's Y equals the lock placement's Y; with an explicit override the
\* handle keeps the overridden height although a lock is present; with no lock
\* the handle keeps its own height.
C12_HandleLockCoordination ==
  HandlePlaced =>
    /\ (LockOnLeaf /\ ~hwInput.heightOverridden) =>
         hwOut.position.y = LockPlacementOfLeaf(hwInput.handle).position.y
    /\ (LockOnLeaf /\ hwInput.heightOverridden) =>
         hwOut.position.y = hwInput.handle.handleHeight
    /\ ~LockOnLeaf => hwOut.position.y = hwInput.handle.handleHeight

-----------------------------------------------------------------------------
(* Properties of the bolt calculator *)

BoltValidated == hwOut.op = "validateBoltPlacement"

BoltsPlaced == hwOut.op = "calculateBoltPositions"

Requested(position) == \E k \in 1..Len(hwInput.bolt.positions) : hwInput.bolt.positions[k] = position

ThicknessError == "Flush/automatic bolts require minimum 40mm door thickness"

\* C14: validateBoltPlacement returns valid iff both offsets are in [150, 300],
\* at least one of top and bottom is requested, and the bolt is a surface bolt
\* or the leaf is at least 40mm thick; the bounds 150, 300 and 40 are
\* accepted, a flush or automatic bolt on a 30mm leaf fails with the thickness
\* error and a surface bolt on a 30mm leaf passes.
C14_BoltValidation ==
  BoltValidated =>
    LET b == hwInput.bolt
        offsetsOk == /\ Mm(150) <= b.topOffset /\ b.topOffset <= Mm(300)
                     /\ Mm(150) <= b.bottomOffset /\ b.bottomOffset <= Mm(300)
        someRequested == Requested("top") \/ Requested("bottom")
    IN  /\ hwOut.result.valid <=>
             (/\ offsetsOk
              /\ someRequested
              /\ (b.boltType = "surface" \/ b.leafThickness >= Mm(40)))
        /\ (offsetsOk /\ someRequested /\ b.leafThickness = Mm(30)) =>
             IF b.boltType = "surface" THEN hwOut.result.valid
             ELSE ~hwOut.result.valid /\ hwOut.result.error = ThicknessError

C14_Witness ==
  /\ BoltValidated
  /\ hwInput.bolt.topOffset = Mm(150)
  /\ hwInput.bolt.bottomOffset = Mm(300)
  /\ hwInput.bolt.leafThickness = Mm(40)
  /\ hwInput.bolt.boltType = "flush"
  /\ hwInput.bolt.positions = <<"bottom">>
  /\ hwOut.result.valid

PlacementsFor(position) ==
  {k \in 1..Len(hwOut.placements) : hwOut.placements[k].metadata.position = position}

\* C15: the bolt calculator returns exactly one placement for each requested
\* position and none for a position not requested; a top bolt is at
\* Y = doorHeight - topOffset and a bottom bolt at Y = bottomOffset, X is 40
\* from the meeting edge (40 left, doorWidth - 40 right), Z is
\* -leafThickness/2 for flush and automatic and 0 for surface, and the
\* rotation about the depth axis is 0 for top and 180 degrees for bottom on
\* flush and automatic bolts and 0 on every surface bolt.
C15_BoltPlacements ==
  BoltsPlaced =>
    LET b == hwInput.bolt
    IN  /\ \A position \in {"top", "bottom"} :
             Cardinality(PlacementsFor(position)) = (IF Requested(position) THEN 1 ELSE 0)
        /\ \A k \in 1..Len(hwOut.placements) :
             LET p == hwOut.placements[k]
                 recessed == b.boltType \in {"flush", "automatic"}
             IN  /\ p.metadata.position \in {"top", "bottom"}
                 /\ p.position.y = (IF p.metadata.position = "top"
                                    THEN b.doorHeight - b.topOffset ELSE b.bottomOffset)
                 /\ p.position.x = (IF b.meetingEdge = "left" THEN Mm(40)
                                    ELSE b.doorWidth - Mm(40))
                 /\ 2 * p.position.z = (IF recessed THEN -b.leafThickness ELSE 0)
                 /\ p.rotation.x = 0 /\ p.rotation.y = 0
                 /\ p.rotation.z = (IF recessed /\ p.metadata.position = "bottom"
                                    THEN 180 ELSE 0)

C15_Witness ==
  /\ BoltsPlaced
  /\ hwInput.bolt.positions = <<"top", "bottom">>
  /\ hwInput.bolt.boltType = "automatic"
  /\ hwInput.bolt.meetingEdge = "right"
  /\ hwInput.bolt.doorWidth = Mm(900)
  /\ hwInput.bolt.leafThickness = Mm(45)
  /\ hwInput.bolt.topOffset = Mm(150)
  /\ hwInput.bolt.bottomOffset = Mm(300)
  /\ Len(hwOut.placements) = 2
  /\ hwOut.placements[1].position = Vector3(Mm(860), Mm(1850), -1350)
  /\ hwOut.placements[2].position = Vector3(Mm(860), Mm(300), -1350)
  /\ hwOut.placements[2].rotation.z = 180

-----------------------------------------------------------------------------
(* Properties of the conflict detector *)

ConflictsDetected == hwOut.op = "detectHardwareConflicts"

\* The placement set of the leaf in the order hinges, lock, handles, bolts.
AllHardware ==
  hwInput.hinges \o (IF hwInput.lock.has THEN <<hwInput.lock.v>> ELSE <<>>)
    \o hwInput.handles \o hwInput.bolts

Pairs == {ij \in (1..Len(AllHardware)) \X (1..Len(AllHardware)) : ij[1] < ij[2]}

KindOf(item) == item.id[1]

\* The required clearance of a pair of kinds, in either order.
KindClearance(k1, k2) ==
  LET pair == {k1, k2}
  IN  CASE pair = {"hinge", "lock"} -> Mm(150)
        [] pair = {"hinge", "handle"} -> Mm(100)
        [] pair = {"hinge", "bolt"} -> Mm(200)
        [] pair = {"lock", "handle"} -> Mm(50)
        [] pair = {"lock", "bolt"} -> Mm(300)
        [] pair = {"handle", "bolt"} -> Mm(200)
        [] OTHER -> Mm(100)

Required(i, j) == KindClearance(KindOf(AllHardware[i]), KindOf(AllHardware[j]))

Closer(i, j, r) == distanceToIsLess(AllHardware[i].position, AllHardware[j].position, r)

EntriesIn(conflicts, item1, item2) ==
  {k \in 1..Len(conflicts) : conflicts[k].items = <<item1.id, item2.id>>}

Entries(i, j) == EntriesIn(hwOut.conflicts, AllHardware[i], AllHardware[j])

\* C16: the clearance applied to a pair is the one of its pair of kinds
\* (hinge-lock 150, hinge-handle 100, hinge-bolt 200, lock-handle 50,
\* lock-bolt 300, handle-bolt 200, 100 otherwise), whatever the order and the
\* sub-types of the two placements; the pair is reported iff its Euclidean
\* distance is strictly below that clearance.
C16_ClearanceByKindPair ==
  ConflictsDetected =>
    \A ij \in Pairs : (Entries(ij[1], ij[2]) # {}) <=> Closer(ij[1], ij[2], Required(ij[1], ij[2]))

\* The distance of the pair is exactly r.
DistanceIs(i, j, r) ==
  LET p == AllHardware[i].position
      q == AllHardware[j].position
  IN  /\ Abs(p.x - q.x) <= r /\ Abs(p.y - q.y) <= r /\ Abs(p.z - q.z) <= r
      /\ distanceToSquared(p, q) = r * r

\* C17: a reported conflict has severity error iff its distance is strictly
\* below half the required clearance of its pair of kinds, and warning
\* otherwise (so also at exactly half); a pair whose distance equals its
\* required clearance is not reported.
C17_SeverityByHalfClearance ==
  ConflictsDetected =>
    \A ij \in Pairs :
      /\ \A k \in Entries(ij[1], ij[2]) :
           /\ hwOut.conflicts[k].severity \in {"error", "warning"}
           /\ hwOut.conflicts[k].severity = "error" <=>
                Closer(ij[1], ij[2], Required(ij[1], ij[2]) \div 2)
      /\ DistanceIs(ij[1], ij[2], Required(ij[1], ij[2])) => Entries(ij[1], ij[2]) = {}

\* The second placement of the pair put at displacement d from the first.
MovedTo(i, j, d) ==
  LET p == AllHardware[i].position
  IN  [AllHardware EXCEPT ![j].position = Vector3(p.x + d.x, p.y + d.y, p.z + d.z)]

ReportedAt(i, j, d) ==
  EntriesIn(ConflictsFrom(MovedTo(i, j, d), 1, 2), AllHardware[i], AllHardware[j]) # {}

LengthSquared(d) == d.x * d.x + d.y * d.y + d.z * d.z

\* C18: for two placements of fixed kinds, a pair reported at one distance is
\* reported at every smaller distance and a pair not reported at one distance
\* is not reported at any larger one; the pair has exactly one entry when its
\* distance is below the required clearance of its kinds and none when it is
\* at or above it.
C18_ConflictMonotonicity ==
  ConflictsDetected =>
    \A ij \in Pairs :
      /\ \A d1, d2 \in Displacements :
           LengthSquared(d1) <= LengthSquared(d2) =>
             (ReportedAt(ij[1], ij[2], d2) => ReportedAt(ij[1], ij[2], d1))
      /\ Cardinality(Entries(ij[1], ij[2])) =
           (IF Closer(ij[1], ij[2], Required(ij[1], ij[2])) THEN 1 ELSE 0)

-----------------------------------------------------------------------------
(* Properties of the double-door coordinator *)

DoublePlaced == hwOut.op = "placeHardwareForDoubleDoors" /\ ~hwOut.result.threw

\* The kind of a placement: a piano hinge placement carries no id.
PlacementKind(p) == IF "id" \in DOMAIN p THEN p.id[1] ELSE "hinge"

KindCount(placements, kind) ==
  Cardinality({k \in 1..Len(placements) : PlacementKind(placements[k]) = kind})

HingesOf(placements) == SelectSeq(placements, LAMBDA p : PlacementKind(p) = "hinge")

\* The side a hinge was placed for, read from its rotation (+90 left, -90 right).
PlacedSide(p) == IF p.rotation.y = 90 THEN "left" ELSE "right"

\* A hinge's X measured from the leaf's meeting line, the edge opposite its
\* hinges.
FromMeetingLine(p) ==
  p.position.x - (IF PlacedSide(p) = "left" THEN hwInput.dimensions.doorWidth ELSE 0)

\* C20: both leafs having the same width, the coordinator places the two
\* leafs' hinges on opposite sides, and corresponding hinges (same hinge type
\* and count on both leafs) have X offsets from the meeting line that are
\* equal in magnitude and opposite in sign, and equal Y.
C20_DoubleDoorSymmetry ==
  DoublePlaced =>
    LET a == HingesOf(hwOut.result.active)
        b == HingesOf(hwOut.result.inactive)
    IN  /\ \A k \in 1..Len(a), m \in 1..Len(b) : PlacedSide(a[k]) # PlacedSide(b[m])
        /\ (/\ hwInput.activeLeaf.hingeType = hwInput.inactiveLeaf.hingeType
            /\ Len(a) = Len(b)) =>
             \A k \in 1..Len(a) :
               /\ FromMeetingLine(a[k]) = -FromMeetingLine(b[k])
               /\ a[k].position.y = b[k].position.y

-----------------------------------------------------------------------------
(* Properties of the double door coordination *)

InactiveOpeningCommanded == animCall.op = "coordinateInactiveLeafOpening"

-----------------------------------------------------------------------------
(* Properties of repeated calculator calls *)

-----------------------------------------------------------------------------
(* Properties of the animation state machine *)

TransitionRequested == animCall.op = "executeTransition"

\* C23: every transition listed in VALID_TRANSITIONS can be carried out,
\* the pause and resume paths and the reversals included: executeTransition
\* on a state in `from` returns a state whose currentState is `to`.
C23_ValidTransitionsCarriedOut ==
  (TransitionRequested /\ isValidTransition(animCall.before.currentState, animCall.to)) =>
    door.currentState = animCall.to

\* C24: executeTransition returns its input state unchanged in every field
\* when the requested transition is not in VALID_TRANSITIONS, and no step of
\* executeTransition or updateDoorAnimation moves a door between two states
\* that the table does not connect.
C24_InvalidTransitionsRejected ==
  /\ []((TransitionRequested /\ ~isValidTransition(animCall.before.currentState, animCall.to))
          => door = animCall.before)
  /\ [][door'.currentState # door.currentState =>
          isValidTransition(door.currentState, door'.currentState)]_vars

C24_Witness ==
  /\ TransitionRequested
  /\ animCall.before.currentState = "OPEN"
  /\ animCall.before.progress = ProgressScale
  /\ animCall.to = "OPENING"
  /\ door = animCall.before

Updated == animCall.op = "updateDoorAnimation"

Animating(state) == state.currentState \in {"OPENING", "CLOSING"}

\* The frame clock can still reach the end of the door's transition.
EndWithinRun == door.startTime + door.duration <= MaxTime

C28_CyclePreservesOpeningAngle ==
  /\ [][door'.targetAngle = door.targetAngle]_vars
  /\ []((Updated /\ door.currentState = "CLOSING" /\ door.progress < ProgressScale) =>
          (0 < door.currentAngle /\ door.currentAngle <= animCall.before.currentAngle))
  /\ [](door.currentState = "OPEN" =>
          (door.currentAngle = door.targetAngle /\ door.currentAngle \in OpeningAngles))

-----------------------------------------------------------------------------
(* Properties of the parameter update debouncer *)

RunsOfUpdate == {i \in 1..Len(executed) : executed[i].call = "executeUpdate"}

\* The call before each run of executeUpdate is the scheduleUpdate whose
\* configuration it runs with: from the timer 300 ms after it, from flush()
\* no later than that.
RunEndsItsBurst ==
  \A i \in RunsOfUpdate :
    /\ i > 1
    /\ executed[i - 1].call = "scheduleUpdate"
    /\ executed[i].config = executed[i - 1].config
    /\ executed[i].from = "timer" => executed[i].time = executed[i - 1].time + debounceDelay
    /\ executed[i].from = "flush" => executed[i].time <= executed[i - 1].time + debounceDelay

\* After a run, and before the first call, nothing is pending and no timer is
\* left; after a scheduleUpdate the one timer left is the one it set.
DebouncerSettled ==
  IF executed = <<>> \/ executed[Len(executed)].call = "executeUpdate"
    THEN /\ debouncer = NewDebouncer
         /\ timers.pending = {}
    ELSE /\ debouncer.pendingUpdate = executed[Len(executed)].config
         /\ timers.pending = {[id |-> debouncer.debounceTimer,
                               due |-> executed[Len(executed)].time + debounceDelay]}
         /\ now <= executed[Len(executed)].time + debounceDelay

\* An update that is pending is run.
BurstIsRun == (debouncer.debounceTimer # NullTimer) ~> (debouncer.debounceTimer = NullTimer)

\* C26: scheduleUpdate calls less than 300 ms apart lead to exactly one run of
\* executeUpdate, with the configuration scheduled last, from the timer 300 ms
\* after the last call or from an earlier flush() and never from both; after the
\* run pendingUpdate and debounceTimer are cleared and no timer is left to fire.
C26_DebouncerBatches ==
  /\ [](RunEndsItsBurst /\ DebouncerSettled)
  /\ BurstIsRun

\* Two calls 100 ms apart with different configurations were run once by the
\* timer, and a later call was run by flush().
C26_Witness ==
  /\ Len(executed) = 5
  /\ executed[1].call = "scheduleUpdate"
  /\ executed[2].call = "scheduleUpdate"
  /\ executed[2].config # executed[1].config
  /\ executed[2].time = executed[1].time + 100
  /\ executed[3].call = "executeUpdate" /\ executed[3].from = "timer"
  /\ executed[4].call = "scheduleUpdate"
  /\ executed[5].call = "executeUpdate" /\ executed[5].from = "flush"
  /\ executed[5].time < executed[4].time + debounceDelay

-----------------------------------------------------------------------------
(* Properties of the application's frame loops *)

\* After dispose() no frame request of the application is pending.
NoFramePendingAfterDispose == app.disposed => frames.pending = {}

\* After dispose() no frame callback runs and none is requested.
NoFrameRunsAfterDispose == [][app.disposed => frames' = frames]_vars

\* After dispose() the render loop's request is gone.
RenderLoopCancelled == app.disposed => \A f \in frames.pending : f.callback # "animate"

\* C27: after dispose() no frame callback of the application runs any more: the
\* render loop is cancelled and the PerformanceMonitor stops rescheduling its
\* update, so no animation-frame request of the application stays pending.
C27_NoFramesAfterDispose ==
  /\ []NoFramePendingAfterDispose
  /\ NoFrameRunsAfterDispose

-----------------------------------------------------------------------------
(* Properties of one leaf's lock and handles *)

\* The conflicts between the lock and a handle.
LockHandleConflicts ==
  SelectSeq(hwOut.conflicts,
            LAMBDA c : {c.items[1][1], c.items[2][1]} = {"lock", "handle"})

\* The lock passed validation with edge offset 60, the handles were coordinated
\* with it and the conflict detector has run.
CoordinatedLeafChecked ==
  /\ hwInput.calculator = "leaf"
  /\ hwOut.op = "detectHardwareConflicts"
  /\ hwOut.validation.valid
  /\ lockInput.edgeOffset = Mm(60)
  /\ \A k \in 1..Len(hwOut.handles) :
       /\ hwOut.handles[k].position.x = hwOut.lock.v.position.x
       /\ hwOut.handles[k].position.y = hwOut.lock.v.position.y

\* C29: a lock that passes validation and the handles coordinated with it (same
\* edge, same height, both 60 from the edge) are not reported as conflicting by
\* detectHardwareConflicts, whatever leaf thickness the validation accepted.
C29_CoordinatedLockHandleNoConflict ==
  CoordinatedLeafChecked => LockHandleConflicts = <<>>

-----------------------------------------------------------------------------
(* Properties of the lock validator on a leaf with a piano hinge *)

\* The lock was validated against the placement placeHinges returned for a
\* piano hinge.
ValidatedAgainstPiano ==
  /\ hingeInput.hingeType = "piano"
  /\ hingeOut.op = "placeHinges"
  /\ ~hingeOut.threw
  /\ LockValidated
  /\ lockOut.hingePlacements = hingeOut.placements

\* The lock is closer than 150mm to the leaf's mid-height.
LockNearMidHeight == Abs(hingeInput.doorHeight \div 2 - lockInput.lockHeight) < Mm(150)

\* C30: on a leaf with a piano hinge the hinges validateLockPlacement checks are
\* the single placement at Y = doorHeight / 2: a lock in range in height, edge
\* offset and thickness is rejected for hinge proximity iff it is closer than
\* 150mm to mid-height, so lock height 1050 is rejected on a 2000mm and on a
\* 2100mm door.
C30_PianoHingeProximity ==
  (ValidatedAgainstPiano /\ LockInRange) =>
    /\ Len(lockOut.hingePlacements) = 1
    /\ lockOut.hingePlacements[1].position.y = hingeInput.doorHeight \div 2
    /\ ~lockOut.valid <=> LockNearMidHeight
    /\ ~lockOut.valid => lockOut.error = "Lock conflicts with hinge"
    /\ (lockInput.lockHeight = Mm(1050) /\ hingeInput.doorHeight \in {Mm(2000), Mm(2100)}) =>
         ~lockOut.valid

\* The default lock height rejected on a 2100mm leaf with a piano hinge.
C30_Witness ==
  /\ ValidatedAgainstPiano
  /\ LockInRange
  /\ hingeInput.doorHeight = Mm(2100)
  /\ lockInput.lockHeight = Mm(1050)
  /\ ~lockOut.valid
  /\ lockOut.error = "Lock conflicts with hinge"

====
